---- MODULE Spec2Model ----
(***************************************************************************)
(* finalyze: the tagging pipeline of src/finalyze/source (raw.py, tag.py, *)
(* schema.py), the filters of config.py and the tag check of the analysis  *)
(* (analysis/analyze.py).                                                  *)
(*                                                                         *)
(* Strings are sequences of one-character strings, so that concatenation,  *)
(* hashing, comparison and CSV quoting are computed character by           *)
(* character.  A nullable value (a polars null / Python None) is a tuple   *)
(* of length at most one: <<>> is null and <<v>> is the value v.  Row      *)
(* indices are 0-based as in polars; row i of a frame df is df[i + 1].     *)
(***************************************************************************)
EXTENDS Integers, Sequences, FiniteSets, TLC

(***************************************************************************)
(* Bounds of the model.                                                    *)
(***************************************************************************)
\* Largest number of transactions in the ledger.
MaxRows == 3

(***************************************************************************)
(* Strings.                                                                *)
(***************************************************************************)
None == <<>>
Some(v) == <<v>>
IsNull(o) == o = <<>>
Val(o) == o[1]

\* The characters of the model in byte order; a character's code is its
\* position.
CharOrder ==
    << " ", "\"", ",", "-", ".", "0", "1", "2", "3", "4", "5", "6", "7", "8", "9",
       "D", "F", "R", "X", "Y", "a", "b", "c", "d", "e", "g", "h", "i", "k", "l", "n", "o",
       "r", "s", "t", "u", "w" >>

CharCode == [c \in {CharOrder[i] : i \in DOMAIN CharOrder} |-> CHOOSE i \in DOMAIN CharOrder : CharOrder[i] = c]

Code(c) == CharCode[c]

Digit(n) == CharOrder[n + 6]

\* Byte-wise lexicographic order on strings: the order of the bytes at the
\* first place where the strings differ, a proper prefix first.
StrLess(a, b) ==
    LET shorter == IF Len(a) < Len(b) THEN Len(a) ELSE Len(b)
        differing == {i \in 1..shorter : a[i] # b[i]}
    IN  IF differing = {} THEN Len(a) < Len(b)
        ELSE LET first == CHOOSE i \in differing : \A j \in differing : i <= j
             IN  Code(a[first]) < Code(b[first])

\* Order on nullable strings, nulls first (polars sort, nulls_last=False).
OptLess(a, b) ==
    IF IsNull(b) THEN FALSE
    ELSE IF IsNull(a) THEN TRUE
    ELSE StrLess(Val(a), Val(b))

RECURSIVE NatStr(_)
\* Decimal digits of a natural number.
NatStr(n) == IF n < 10 THEN <<Digit(n)>> ELSE NatStr(n \div 10) \o <<Digit(n % 10)>>

RECURSIVE StrNat(_)
\* The natural number written by a string of decimal digits.
StrNat(s) ==
    IF s = <<>> THEN 0
    ELSE StrNat(SubSeq(s, 1, Len(s) - 1)) * 10 + (Code(s[Len(s)]) - 6)

Pad2(n) == <<Digit(n \div 10), Digit(n % 10)>>

\* pl.Date cast to string: ISO "YYYY-MM-DD".  A date is the integer YYYYMMDD.
DateStr(d) == NatStr(d \div 10000) \o <<"-">> \o Pad2((d \div 100) % 100) \o <<"-">> \o Pad2(d % 100)

\* pl.Float64 cast to string, for the whole-valued amounts of the model:
\* -10.0 is "-10.0", 5.0 is "5.0".
AmountStr(a) == (IF a < 0 THEN <<"-">> ELSE <<>>) \o NatStr(IF a < 0 THEN -a ELSE a) \o <<".", "0">>

(***************************************************************************)
(* Schemas (src/finalyze/source/schema.py, tag.py).                        *)
(***************************************************************************)
HASH_COLUMNS == <<"account", "source", "date", "description", "amount">>
RAW_SCHEMA == {"account", "source", "date", "amount", "description"}
TAG_SCHEMA == <<"tag", "subtag", "hash">>
TAGGED_SCHEMA == RAW_SCHEMA \cup {"tag", "subtag", "hash"}

Range(s) == {s[i] : i \in DOMAIN s}

\* validate_schema on the column names of the rows of df (column types are
\* fixed by the record fields of the model).
validate_schema(df, expected_schema) == \A i \in DOMAIN df : DOMAIN df[i] = expected_schema

(***************************************************************************)
(* Identity (src/finalyze/source/raw.py).                                  *)
(***************************************************************************)
\* The string form of one hash column of a row.
ColumnStr(row, column) ==
    CASE column = "date" -> DateStr(row.date)
      [] column = "amount" -> AmountStr(row.amount)
      [] OTHER -> row[column]

RECURSIVE ConcatCols(_, _)
ConcatCols(row, cols) ==
    IF cols = <<>> THEN <<>> ELSE ColumnStr(row, Head(cols)) \o ConcatCols(row, Tail(cols))

\* pl.concat_str(HASH_COLUMNS): the columns joined with the default
\* separator, which is the empty string.
concat_str(row) == ConcatCols(row, HASH_COLUMNS)

\* Modulus and multiplier of the model's string hash.
HashModulus == 65521
HashBase == 131

\* a * b modulo HashModulus, the product taken in two parts that fit TLC's
\* integers.
MulMod(a, b) == (((a * (b \div 256)) % HashModulus) * 256 + a * (b % 256)) % HashModulus

RECURSIVE PowMod(_)
\* HashBase to the power n, modulo HashModulus.
PowMod(n) ==
    IF n = 0 THEN 1
    ELSE LET root == PowMod(n \div 2)
             square == MulMod(root, root)
         IN  IF n % 2 = 1 THEN MulMod(square, HashBase % HashModulus) ELSE square

RECURSIVE FeedChars(_, _)
\* The hash after the characters of s are fed, one after the other, to the
\* hash h: feeding a character c turns h into (h * HashBase + Code(c)) %
\* HashModulus.
FeedChars(h, s) ==
    IF s = <<>> THEN h ELSE FeedChars((h * HashBase + Code(s[1])) % HashModulus, Tail(s))

RECURSIVE HashFrom(_, _)
\* FeedChars(h, s), a long string taken in two halves: feeding s \o t gives
\* the hash of s times HashBase to the power Len(t), plus the hash t gives
\* from 0.
HashFrom(h, s) ==
    IF Len(s) <= 32 THEN FeedChars(h, s)
    ELSE LET half == Len(s) \div 2
             rest == SubSeq(s, half + 1, Len(s))
         IN  (MulMod(HashFrom(h, SubSeq(s, 1, half)), PowMod(Len(rest))) + HashFrom(0, rest))
                 % HashModulus

\* Expr.hash(): a fixed-seed function of the string alone.  polars' 64-bit
\* hash is replaced by a polynomial hash that fits TLC's integers.
hash(s) == HashFrom(7, s)

\* A row of the raw schema, of the raw schema with hash, and of the tagged
\* schema.
RawRow(row) ==
    [account |-> row.account, source |-> row.source, date |-> row.date, amount |-> row.amount,
     description |-> row.description]
HashedRow(row, h) ==
    [account |-> row.account, source |-> row.source, date |-> row.date, amount |-> row.amount,
     description |-> row.description, hash |-> h]
TaggedRow(row, tag, subtag) ==
    [account |-> row.account, source |-> row.source, date |-> row.date, amount |-> row.amount,
     description |-> row.description, hash |-> row.hash, tag |-> tag, subtag |-> subtag]

Row(account, source, date, amount, description) ==
    [account |-> account, source |-> source, date |-> date, amount |-> amount,
     description |-> description]

\* The transactions a ledger is drawn from.  The first two differ in account
\* and source only; the last four have pairwise different natural keys.
RowUniverse ==
    { Row(<<"a", "b">>, <<"c">>, 20240105, -10, <<"X">>),
      Row(<<"a">>, <<"b", "c">>, 20240105, -10, <<"X">>),
      Row(<<"a">>, <<"b", "c">>, 20240207, -10, <<"X">>),
      Row(<<"a">>, <<"b", "c">>, 20240207, 5, <<"X">>),
      Row(<<"a">>, <<"b", "c">>, 20240301, 5, <<"Y">>) }

\* The transactions the ledgers of the enrichment are drawn from: two that
\* differ in account and source only, one on the first day of a month, one
\* on the last day of a month, and two sources within the account a.
EnrichUniverse ==
    { Row(<<"a", "b">>, <<"c">>, 20240105, -10, <<"X">>),
      Row(<<"a">>, <<"b", "c">>, 20240105, -10, <<"X">>),
      Row(<<"a">>, <<"b", "c">>, 20240207, 5, <<"X">>),
      Row(<<"a">>, <<"b", "c">>, 20240301, 5, <<"Y">>),
      Row(<<"a">>, <<"c">>, 20240131, 5, <<"Y">>) }

\* The value of pl.concat_str(HASH_COLUMNS).hash() on each transaction.
RowHash == [row \in RowUniverse \cup EnrichUniverse |-> hash(concat_str(row))]

\* derive_hash(df): df with the column hash added.
derive_hash(df) == [i \in DOMAIN df |-> HashedRow(df[i], RowHash[df[i]])]

(***************************************************************************)
(* Tag Store file (src/finalyze/source/tag.py).  The file is modelled by   *)
(* whether it exists and by its data lines, each line a tuple of the field *)
(* texts in the column order (tag, subtag, hash).                          *)
(***************************************************************************)
RECURSIVE EscapeQuotes(_)
EscapeQuotes(s) ==
    IF s = <<>> THEN <<>>
    ELSE (IF s[1] = "\"" THEN <<"\"", "\"">> ELSE <<s[1]>>) \o EscapeQuotes(Tail(s))

RECURSIVE UnescapeQuotes(_)
UnescapeQuotes(s) ==
    IF s = <<>> THEN <<>>
    ELSE IF Len(s) >= 2 /\ s[1] = "\"" /\ s[2] = "\"" THEN <<"\"">> \o UnescapeQuotes(Tail(Tail(s)))
    ELSE <<s[1]>> \o UnescapeQuotes(Tail(s))

NeedsQuotes(s) == s = <<>> \/ \E i \in DOMAIN s : s[i] \in {"\"", ","}

\* Variant: an empty string is written without quotes.
CsvString_unquoted_empty(o) ==
    IF IsNull(o) THEN <<>>
    ELSE IF Val(o) # <<>> /\ NeedsQuotes(Val(o)) THEN <<"\"">> \o EscapeQuotes(Val(o)) \o <<"\"">>
    ELSE Val(o)

\* DataFrame.write_csv on a String cell: a null is the empty field, and a
\* string is quoted when it is empty or holds a quote or a separator.
CsvString(o) ==
    IF IsNull(o) THEN <<>>
    ELSE IF NeedsQuotes(Val(o)) THEN <<"\"">> \o EscapeQuotes(Val(o)) \o <<"\"">>
    ELSE Val(o)

\* pl.read_csv on a String field: the empty field is null.
ParseString(f) ==
    IF f = <<>> THEN None
    ELSE IF f[1] = "\"" THEN Some(UnescapeQuotes(SubSeq(f, 2, Len(f) - 1)))
    ELSE Some(f)

CsvLine(row) == <<CsvString(row.tag), CsvString(row.subtag), NatStr(row.hash)>>

ParseLine(line) == [tag |-> ParseString(line[1]), subtag |-> ParseString(line[2]), hash |-> StrNat(line[3])]

\* DataFrame.write_csv / pl.read_csv(schema=TAG_SCHEMA) on a whole table.
write_csv(data) == [i \in DOMAIN data |-> CsvLine(data[i])]
read_csv(lines) == [i \in DOMAIN lines |-> ParseLine(lines[i])]

\* Order of DataFrame.sort(*TAG_SCHEMA): by tag, then subtag, then hash.
TagRowLess(a, b) ==
    IF a.tag # b.tag THEN OptLess(a.tag, b.tag)
    ELSE IF a.subtag # b.subtag THEN OptLess(a.subtag, b.subtag)
    ELSE a.hash < b.hash

RECURSIVE Insert(_, _)
Insert(row, sorted) ==
    IF sorted = <<>> THEN <<row>>
    ELSE IF TagRowLess(row, Head(sorted)) THEN <<row>> \o sorted
    ELSE <<Head(sorted)>> \o Insert(row, Tail(sorted))

\* Variant: the rows stay in the order they have.
sort_tags_as_given(data) == data

RECURSIVE sort_tags(_)
\* data.sort(*TAG_SCHEMA)
sort_tags(data) == IF data = <<>> THEN <<>> ELSE Insert(Head(data), sort_tags(Tail(data)))

\* The file as read_tags_file leaves it: created with the header alone when
\* it is missing.
TouchTagsFile(file) == IF file.exists THEN file ELSE [exists |-> TRUE, lines |-> <<>>]

\* read_tags_file(): the table read from the (possibly just created) file.
read_tags_file(file) == read_csv(TouchTagsFile(file).lines)

\* Variant: the write is deferred, the file stays as it is.
write_tags_file_deferred(data, file) == file

\* write_tags_file(data): the file after the write; the write is reached
\* only when validate_schema passes.
write_tags_file(data, file) ==
    IF validate_schema(data, Range(TAG_SCHEMA))
    THEN [exists |-> TRUE, lines |-> write_csv(sort_tags(data))]
    ELSE file

(***************************************************************************)
(* Join of the ledger with the Tag Store (tag.py, apply_tags).             *)
(***************************************************************************)
RECURSIVE Matches(_, _)
\* The rows of tags whose hash is h, in table order.
Matches(tags, h) ==
    IF tags = <<>> THEN <<>>
    ELSE (IF Head(tags).hash = h THEN <<Head(tags)>> ELSE <<>>) \o Matches(Tail(tags), h)

\* Variant: an inner join, a row without a tags row gives no row.
JoinRow_inner(row, tags) ==
    LET m == Matches(tags, row.hash)
    IN  [k \in DOMAIN m |-> TaggedRow(row, m[k].tag, m[k].subtag)]

JoinRow(row, tags) ==
    LET m == Matches(tags, row.hash)
    IN  IF m = <<>> THEN <<TaggedRow(row, None, None)>>
        ELSE [k \in DOMAIN m |-> TaggedRow(row, m[k].tag, m[k].subtag)]

\* Variant: the join lists the rows that have an entry in tags before the
\* rows that have none.
left_join_matched_first(data, tags) ==
    LET F[i \in 0..Len(data)] == IF i = 0 THEN <<>> ELSE F[i - 1] \o JoinRow(data[i], tags)
        matched(row) == row.hash \in {tags[k].hash : k \in DOMAIN tags}
    IN  SelectSeq(F[Len(data)], matched) \o SelectSeq(F[Len(data)], LAMBDA row : ~matched(row))

RECURSIVE left_join(_, _)
\* hashed_data.join(tags, on="hash", how="left"), in the order of the left
\* frame.
left_join(data, tags) ==
    IF data = <<>> THEN <<>> ELSE JoinRow(Head(data), tags) \o left_join(Tail(data), tags)

\* data.drop(*TAG_SCHEMA, strict=False)
drop_tag_columns(data) == [i \in DOMAIN data |-> RawRow(data[i])]

\* apply_tags(data) without preset rules, reading the Tag Store from file.
apply_tags(data, file) == left_join(derive_hash(drop_tag_columns(data)), read_tags_file(file))

(***************************************************************************)
(* Tagger (tag.py, class Tagger).                                          *)
(***************************************************************************)
\* Tags(tag, subtag); both parts are nullable strings.
Tags(tag, subtag) == [tag |-> tag, subtag |-> subtag]

UNKNOWN_TAGS == Tags(Some(<<"u", "n", "k", "n", "o", "w", "n">>), Some(<<>>))

\* Tagger.get_row(index)
get_row(source, index) == source[index + 1]

\* Entries of a tags table by hash.
UniqueHashes(table) == \A j, k \in DOMAIN table : j # k => table[j].hash # table[k].hash
EntriesOf(table, h) == {table[k] : k \in {j \in DOMAIN table : table[j].hash = h}}
CountOf(table, h) == Cardinality({j \in DOMAIN table : table[j].hash = h})
Hashes(table) == {table[k].hash : k \in DOMAIN table}

\* Variant: .unique(subset="hash", keep="first").
unique_keep_first(data) ==
    LET keep(i) == \A j \in DOMAIN data : j < i => data[j].hash # data[i].hash
        F[i \in 0..Len(data)] ==
            IF i = 0 THEN <<>> ELSE IF keep(i) THEN Append(F[i - 1], data[i]) ELSE F[i - 1]
    IN  F[Len(data)]

\* Variant: the concatenation is not deduplicated.
unique_keep_all(data) == data

\* .unique(subset="hash", keep="last"): of the rows that share a hash only
\* the last one stays.
unique_keep_last(data) ==
    LET keep(i) == \A j \in DOMAIN data : j > i => data[j].hash # data[i].hash
        F[i \in 0..Len(data)] ==
            IF i = 0 THEN <<>> ELSE IF keep(i) THEN Append(F[i - 1], data[i]) ELSE F[i - 1]
    IN  F[Len(data)]

\* The new value of self.tags in Tagger.apply_tags.
upsert(tags, new_tags_row) == sort_tags(unique_keep_last(tags \o <<new_tags_row>>))

\* Variant: the tag is set on row index of self.source alone, without a
\* new join.
Tagger_apply_tags_row_only(st, index, t) ==
    LET row_hash == get_row(st.source, index).hash
        new_tags == upsert(st.tags, [tag |-> t.tag, subtag |-> t.subtag, hash |-> row_hash])
    IN  [source |-> [i \in DOMAIN st.source |->
                        IF i = index + 1 THEN TaggedRow(st.source[i], t.tag, t.subtag) ELSE st.source[i]],
         tags |-> new_tags, file |-> write_tags_file(new_tags, st.file), ok |-> TRUE]

\* Variant: self.source is not joined again after the write.
Tagger_apply_tags_stale(st, index, t) ==
    LET row_hash == get_row(st.source, index).hash
        new_tags == upsert(st.tags, [tag |-> t.tag, subtag |-> t.subtag, hash |-> row_hash])
    IN  [source |-> st.source, tags |-> new_tags, file |-> write_tags_file(new_tags, st.file), ok |-> TRUE]

\* Tagger.apply_tags(index, tags) on the Tagger state st = [source, tags,
\* file]: the state after it, and whether it returned without raising.
Tagger_apply_tags(st, index, t) ==
    LET row_hash == get_row(st.source, index).hash
        new_tags_row == [tag |-> t.tag, subtag |-> t.subtag, hash |-> row_hash]
        new_tags == upsert(st.tags, new_tags_row)
        written == validate_schema(new_tags, Range(TAG_SCHEMA))
        new_file == write_tags_file(new_tags, st.file)
        new_source == apply_tags(st.source, new_file)
    IN  IF ~written THEN [source |-> st.source, tags |-> new_tags, file |-> st.file, ok |-> FALSE]
        ELSE [source |-> new_source, tags |-> new_tags, file |-> new_file,
              ok |-> validate_schema(new_source, TAGGED_SCHEMA)]

RECURSIVE InsertInt(_, _)
InsertInt(x, s) ==
    IF s = <<>> THEN <<x>>
    ELSE IF x <= Head(s) THEN <<x>> \o s
    ELSE <<Head(s)>> \o InsertInt(x, Tail(s))

RECURSIVE sorted(_)
\* Python's sorted() on a set of integers.
sorted(S) ==
    IF S = {} THEN <<>>
    ELSE LET x == CHOOSE x \in S : TRUE IN InsertInt(x, sorted(S \ {x}))

\* Variant: ignore_indices is not subtracted.
get_untagged_index_no_ignore(source, ignore_indices) ==
    LET indices == sorted({i \in 0..(Len(source) - 1) : IsNull(source[i + 1].tag)})
    IN  IF indices # <<>> THEN Some(indices[1]) ELSE None

\* Tagger.get_untagged_index(ignore_indices): a nullable row index.
get_untagged_index(source, ignore_indices) ==
    LET ignores == ignore_indices
        untagged_indices == {i \in 0..(Len(source) - 1) : IsNull(source[i + 1].tag)}
        indices == sorted(untagged_indices \ ignores)
    IN  IF indices # <<>> THEN Some(indices[1]) ELSE None

RECURSIVE OrdersFrom(_, _, _)
\* The listings of the rows `left` of data (1-based positions) by date,
\* descending or ascending, rows of one date in any order.
OrdersFrom(data, left, descending) ==
    IF left = {} THEN {<<>>}
    ELSE LET first == {i \in left : \A j \in left :
                          IF descending THEN data[i].date >= data[j].date
                          ELSE data[i].date <= data[j].date}
         IN  UNION {{<<i>> \o rest : rest \in OrdersFrom(data, left \ {i}, descending)} : i \in first}

\* Variant: the sort is ascending.
DescendingDateOrders_ascending(source) == OrdersFrom(source, DOMAIN source, FALSE)

\* The orders in which self.source.sort("date", descending=True) can list
\* the rows: the sort does not fix the order of rows of one date.
DescendingDateOrders(source) == OrdersFrom(source, DOMAIN source, TRUE)

\* tag_descriptions[tags].add(description) on the insertion-ordered dict,
\* kept as a sequence of [tags, descriptions].
AddDescription(tag_descriptions, tags, description) ==
    IF \E k \in DOMAIN tag_descriptions : tag_descriptions[k].tags = tags
    THEN [k \in DOMAIN tag_descriptions |->
            IF tag_descriptions[k].tags = tags
            THEN [tags |-> tags, descriptions |-> tag_descriptions[k].descriptions \cup {description}]
            ELSE tag_descriptions[k]]
    ELSE Append(tag_descriptions, [tags |-> tags, descriptions |-> {description}])

\* Variant: the fallback is the first tag pair met in the scan.
GuessFallback_first_seen(tag_descriptions, default_tags) ==
    IF ~IsNull(default_tags) THEN Val(default_tags)
    ELSE IF tag_descriptions = <<>> THEN UNKNOWN_TAGS
    ELSE tag_descriptions[1].tags

\* The fallbacks of guess_tags once the scan has found no equal description.
GuessFallback(tag_descriptions, default_tags) ==
    IF ~IsNull(default_tags) THEN Val(default_tags)
    ELSE IF tag_descriptions = <<>> THEN UNKNOWN_TAGS
    ELSE LET count(k) == Cardinality(tag_descriptions[k].descriptions)
             greatest_count == CHOOSE c \in {count(k) : k \in DOMAIN tag_descriptions} :
                                   \A k \in DOMAIN tag_descriptions : count(k) <= c
             \* description_counts[greatest_count]: the dict keeps the last
             \* tags inserted under a count
             last == CHOOSE k \in DOMAIN tag_descriptions :
                         /\ count(k) = greatest_count
                         /\ \A j \in DOMAIN tag_descriptions : count(j) = greatest_count => j <= k
         IN  tag_descriptions[last].tags

RECURSIVE GuessScan(_, _, _, _, _, _)
\* The loop of guess_tags from position k of the date-descending order.
GuessScan(source, order, k, target_description, tag_descriptions, default_tags) ==
    IF k > Len(source) THEN GuessFallback(tag_descriptions, default_tags)
    ELSE LET row == source[order[k]]
             tags == Tags(row.tag, row.subtag)
         IN  IF IsNull(row.tag)
             THEN GuessScan(source, order, k + 1, target_description, tag_descriptions, default_tags)
             ELSE LET added == AddDescription(tag_descriptions, tags, row.description)
                  IN  IF row.description = target_description THEN tags
                      ELSE GuessScan(source, order, k + 1, target_description, added, default_tags)

\* Tagger.guess_tags(index) when the descending sort lists the rows in order.
guess_tags(source, index, default_tags, order) ==
    GuessScan(source, order, 1, get_row(source, index).description, <<>>, default_tags)

\* Every result guess_tags(index) can give.
Guesses(source, index, default_tags) ==
    {guess_tags(source, index, default_tags, order) : order \in DescendingDateOrders(source)}

(***************************************************************************)
(* Filters (src/finalyze/config.py) and preset rules (tag.py).  A polars   *)
(* predicate has three values on a row: "T", "F" and, on a null cell, "N"; *)
(* DataFrame.filter keeps the rows where it is "T".                        *)
(***************************************************************************)
And3(a, b) == IF a = "F" \/ b = "F" THEN "F" ELSE IF a = "N" \/ b = "N" THEN "N" ELSE "T"
Not3(a) == IF a = "T" THEN "F" ELSE IF a = "F" THEN "T" ELSE "N"
Bool3(b) == IF b THEN "T" ELSE "F"

\* Expr.is_in on a nullable string cell.
IsIn3(cell, values) == IF IsNull(cell) THEN "N" ELSE Bool3(Val(cell) \in values)

\* Expr.str.contains for a pattern without regex metacharacters.
Contains(s, pattern) ==
    \E i \in 1..(Len(s) + 1) :
        /\ i + Len(pattern) - 1 <= Len(s)
        /\ SubSeq(s, i, i + Len(pattern) - 1) = pattern

\* Filters(...); every field but invert is nullable, and_filters and
\* or_filters are left unset.
Filters(start_date, end_date, tags_in, subtags_in, description, account, source_name, invert) ==
    [start_date |-> start_date, end_date |-> end_date, tags |-> tags_in, subtags |-> subtags_in,
     description |-> description, account |-> account, source |-> source_name,
     and_filters |-> None, or_filters |-> None, invert |-> invert]

NO_FILTERS == Filters(None, None, None, None, None, None, None, FALSE)

\* Filters._get_predicates() evaluated on one row, in the order of the code.
Filters_get_predicates(f, row) ==
    (IF IsNull(f.start_date) THEN <<>> ELSE <<Bool3(row.date >= Val(f.start_date))>>)
    \o (IF IsNull(f.end_date) THEN <<>> ELSE <<Bool3(row.date < Val(f.end_date))>>)
    \o (IF IsNull(f.tags) THEN <<>> ELSE <<IsIn3(row.tag, Val(f.tags))>>)
    \o (IF IsNull(f.subtags) THEN <<>> ELSE <<IsIn3(row.subtag, Val(f.subtags))>>)
    \o (IF IsNull(f.description) THEN <<>> ELSE <<Bool3(Contains(row.description, Val(f.description)))>>)
    \o (IF IsNull(f.account) THEN <<>> ELSE <<Bool3(row.account = Val(f.account))>>)
    \o (IF IsNull(f.source) THEN <<>> ELSE <<Bool3(Contains(row.source, Val(f.source)))>>)

\* The number of predicates does not depend on the row.
Filters_count(f) ==
    Cardinality({c \in {"start_date", "end_date", "tags", "subtags", "description", "account", "source"} :
                    ~IsNull(f[c])})

\* Filters.has_effect
Filters_has_effect(f) ==
    Filters_count(f) > 0 \/ f.invert \/ ~IsNull(f.and_filters) \/ ~IsNull(f.or_filters)

RECURSIVE ReduceAnd(_, _)
\* functools.reduce(operator.and_, predicates, initial)
ReduceAnd(predicates, initial) ==
    IF predicates = <<>> THEN initial ELSE ReduceAnd(Tail(predicates), And3(initial, Head(predicates)))

\* Filters.predicate on one row, for filters without and_filters/or_filters.
Filters_predicate(f, row) ==
    LET predicate == ReduceAnd(Filters_get_predicates(f, row), "T")
    IN  IF f.invert THEN Not3(predicate) ELSE predicate


\* Filters.apply(df)
Filters_apply(f, df) == SelectSeq(df, LAMBDA row : Filters_predicate(f, row) = "T")

\* TagPresetRule(tag, subtag, filters)
TagPresetRule(tag, subtag, filters) == [tag |-> tag, subtag |-> subtag, filters |-> filters]

\* filters.tags = None; filters.subtags = None
WithoutTagFilters(f) == [f EXCEPT !.tags = None, !.subtags = None]

\* Sequence reversed: reversed(preset_rules)
Reverse(s) == [i \in DOMAIN s |-> s[Len(s) + 1 - i]]

\* One pass of the loop of apply_tag_presets.
ApplyPreset(data, preset) ==
    LET filters == WithoutTagFilters(preset.filters)
    IN  IF ~Filters_has_effect(filters) THEN data
        ELSE LET matched == Filters_apply(filters, data)
                 filtered == [i \in DOMAIN matched |->
                                 TaggedRow(matched[i], Some(preset.tag), Some(preset.subtag))]
                 kept == SelectSeq(data, LAMBDA row : row.hash \notin Hashes(filtered))
             IN  kept \o filtered

RECURSIVE ApplyPresetsInOrder(_, _)
ApplyPresetsInOrder(data, presets) ==
    IF presets = <<>> THEN data
    ELSE ApplyPresetsInOrder(ApplyPreset(data, Head(presets)), Tail(presets))

\* Variant: the rules are applied in the order of the list.
apply_tag_presets_in_listed_order(data, preset_rules) == ApplyPresetsInOrder(data, preset_rules)

\* apply_tag_presets(data, preset_rules)
apply_tag_presets(data, preset_rules) == ApplyPresetsInOrder(data, Reverse(preset_rules))

\* apply_tags(data, preset_rules=preset_rules) for a list preset_rules.
apply_tags_with_presets(data, file, preset_rules) ==
    apply_tag_presets(apply_tags(data, file), preset_rules)

RECURSIVE PresetHashesOf(_, _)
\* get_tag_preset_hashes(source_data): the hashes of the rows an effective
\* preset rule matches.
PresetHashesOf(source_data, preset_rules) ==
    IF preset_rules = <<>> THEN {}
    ELSE LET filters == WithoutTagFilters(Head(preset_rules).filters)
             rest == PresetHashesOf(source_data, Tail(preset_rules))
         IN  IF ~Filters_has_effect(filters) THEN rest
             ELSE Hashes(Filters_apply(filters, source_data)) \cup rest

\* Variant: only the first rule of the list is looked at.
get_tag_preset_hashes_first_rule(source_data, preset_rules) ==
    PresetHashesOf(source_data, SubSeq(preset_rules, 1, 1))

get_tag_preset_hashes(source_data, preset_rules) == PresetHashesOf(source_data, preset_rules)

\* The ledger tag_interactively() hands to the Tagger: the rows no preset
\* rule covers, without the hash column.
WithoutPresetRows(data, preset_rules) ==
    LET hashed == derive_hash(data)
        preset_hashes == get_tag_preset_hashes(hashed, preset_rules)
    IN  drop_tag_columns(SelectSeq(hashed, LAMBDA row : row.hash \notin preset_hashes))

(***************************************************************************)
(* Deleting tags (tag.py: delete_filtered_tags, delete_unused_tags,        *)
(* _delete_tags).  The directory bak is modelled by whether it exists and  *)
(* by the contents of the files copied into it, in the order of their      *)
(* timestamps.                                                             *)
(***************************************************************************)
\* delete_filtered_tags: tag_hashes, the hashes of the joined rows the
\* delete filters match.
filtered_tag_hashes(source_data, file, filters) ==
    Hashes(Filters_apply(filters, apply_tags(source_data, file)))

\* Variant: every entry of the Tag Store counts as unused.
unused_tag_hashes_all(source_data, file) == Hashes(read_tags_file(file))

\* delete_unused_tags: tag_hashes, the hashes of the entries of the Tag
\* Store that no row of the joined ledger has.
unused_tag_hashes(source_data, file) ==
    LET tagged_data == apply_tags(source_data, file)
    IN  Hashes(SelectSeq(read_tags_file(file), LAMBDA entry : entry.hash \notin Hashes(tagged_data)))

\* Variant: the entries of the matched hashes are the ones kept.
remaining_tags_matched(file, tag_hashes) ==
    SelectSeq(read_tags_file(file), LAMBDA entry : entry.hash \in tag_hashes)

\* _delete_tags: remaining_tags
remaining_tags(file, tag_hashes) ==
    SelectSeq(read_tags_file(file), LAMBDA entry : entry.hash \notin tag_hashes)

\* str.lower() on the letters of the answers.
LowerChar(c) ==
    CASE c = "Y" -> "y"
      [] c = "E" -> "e"
      [] c = "S" -> "s"
      [] c = "N" -> "n"
      [] OTHER -> c
lower(s) == [i \in DOMAIN s |-> LowerChar(s[i])]

\* Variant: the first letter of the answer decides.
IsYes_first_letter(answer) == answer # <<>> /\ LowerChar(answer[1]) = "y"

\* input("Delete tags? [y/N] ").lower() in ("y", "yes")
IsYes(answer) == lower(answer) \in {<<"y">>, <<"y", "e", "s">>}

\* The prompt of _delete_tags(tag_hashes), reached when tag_hashes is not
\* empty; remaining_tags is computed before the question is asked.
DeletePrompt(kind, file, tag_hashes) ==
    [kind |-> kind, tag_hashes |-> tag_hashes, remaining_tags |-> remaining_tags(file, tag_hashes)]

\* shutil.copy2(tags_file, backup_file_path) raises when the directory of
\* the target is missing.
copy2_raises(file, bakdir) == ~bakdir.exists

\* The directory bak after the copy and the mkdir.
copy2(file, bakdir) == [exists |-> TRUE, files |-> Append(bakdir.files, file.lines)]

(***************************************************************************)
(* Analysis (src/finalyze/analysis/analyze.py): the source data of the     *)
(* analysis and the check of its tags.  Truncation, edge ticks and         *)
(* anonymization are at their defaults (off); the columns the analysis     *)
(* adds to the rows are left out.                                          *)
(***************************************************************************)
SORT_ORDER == <<"date", "tag", "subtag", "amount", "description", "hash">>

\* Whether a sorts strictly before b on one column, nulls first.
ColumnLess(a, b, column) ==
    CASE column \in {"date", "amount", "hash"} -> a[column] < b[column]
      [] column \in {"tag", "subtag"} -> OptLess(a[column], b[column])
      [] OTHER -> StrLess(a[column], b[column])

RECURSIVE RowLess(_, _, _)
\* Whether a sorts strictly before b on the columns by, in that order.
RowLess(a, b, by) ==
    IF by = <<>> THEN FALSE
    ELSE IF ColumnLess(a, b, Head(by)) THEN TRUE
    ELSE IF ColumnLess(b, a, Head(by)) THEN FALSE
    ELSE RowLess(a, b, Tail(by))

RECURSIVE SortListings(_, _, _)
\* The listings of the rows `left` of df (positions) sorted on the columns
\* by, rows equal on all of them in any order.
SortListings(df, left, by) ==
    IF left = {} THEN {<<>>}
    ELSE UNION {{<<df[i]>> \o rest : rest \in SortListings(df, left \ {i}, by)} :
                   i \in {j \in left : \A k \in left : ~RowLess(df[k], df[j], by)}}

\* source.sort(SORT_ORDER)
sort_by(df, by) == SortListings(df, DOMAIN df, by)

\* get_post_processed_source_data(): the frames it can return.
get_post_processed_source_data(ledger, file, rules, filters) ==
    {Filters_apply(filters, sorted_source) :
        sorted_source \in sort_by(apply_tags_with_presets(ledger, file, rules), SORT_ORDER)}

\* Variant: the first row with a null tag alone.
null_tags_first(df) ==
    LET all == SelectSeq(df, LAMBDA row : IsNull(row.tag))
    IN  IF all = <<>> THEN <<>> ELSE <<all[1]>>

\* _validate_tags: null_tags = df.filter(pl.col("tag").is_null())
null_tags(df) == SelectSeq(df, LAMBDA row : IsNull(row.tag))

(***************************************************************************)
(* validate_schema with column types (src/finalyze/source/schema.py).  A   *)
(* collected schema is a function from column names to dtypes, an expected *)
(* schema the sequence of the items of the dict.                           *)
(***************************************************************************)
\* The dtypes of RAW_SCHEMA, TAGGED_SCHEMA and TAG_SCHEMA.
Dtype ==
    [column \in TAGGED_SCHEMA |->
        CASE column = "date" -> "Date"
          [] column = "amount" -> "Float64"
          [] column = "hash" -> "UInt64"
          [] OTHER -> "String"]

\* The items of a schema dict over the columns listed.
SchemaItems(columns) == [i \in DOMAIN columns |-> [column |-> columns[i], dtype |-> Dtype[columns[i]]]]

\* set(expected_schema.keys())
SchemaKeys(expected) == {expected[i].column : i \in DOMAIN expected}

RECURSIVE ColumnErrors(_, _)
\* The for loop of validate_schema over expected_schema.items().
ColumnErrors(actual_schema, items) ==
    IF items = <<>> THEN <<>>
    ELSE LET column == Head(items).column
             expected_dtype == Head(items).dtype
             error ==
                 IF column \notin DOMAIN actual_schema
                 THEN <<[kind |-> "Missing column", column |-> column]>>
                 ELSE IF actual_schema[column] # expected_dtype
                 THEN <<[kind |-> "Column", column |-> column, dtype |-> actual_schema[column],
                         expected |-> expected_dtype]>>
                 ELSE <<>>
         IN  error \o ColumnErrors(actual_schema, Tail(items))

\* Variant: the checks stop at the first error.
schema_errors_first(actual_schema, expected) ==
    LET missing_columns == SchemaKeys(expected) \ DOMAIN actual_schema
        extra_columns == DOMAIN actual_schema \ SchemaKeys(expected)
        all == (IF missing_columns # {} THEN <<[kind |-> "Missing columns", columns |-> missing_columns]>>
                ELSE <<>>)
               \o (IF extra_columns # {} THEN <<[kind |-> "Extra columns", columns |-> extra_columns]>>
                   ELSE <<>>)
               \o ColumnErrors(actual_schema, expected)
    IN  IF all = <<>> THEN <<>> ELSE <<all[1]>>

\* validate_schema: the list errors; InvalidSchema is raised with its
\* elements joined by ", " when it is not empty.
schema_errors(actual_schema, expected) ==
    LET missing_columns == SchemaKeys(expected) \ DOMAIN actual_schema
        extra_columns == DOMAIN actual_schema \ SchemaKeys(expected)
    IN  (IF missing_columns # {} THEN <<[kind |-> "Missing columns", columns |-> missing_columns]>>
         ELSE <<>>)
        \o (IF extra_columns # {} THEN <<[kind |-> "Extra columns", columns |-> extra_columns]>>
            ELSE <<>>)
        \o ColumnErrors(actual_schema, expected)

(***************************************************************************)
(* Enrichment (src/finalyze/source/data.py).  A calendar date is the       *)
(* integer YYYYMMDD.  group_by returns its groups in the order of their    *)
(* first row: polars leaves the order open, and the rows are sorted on     *)
(* SORT_ORDER before any balance is computed from their order.  Truncation *)
(* is at its default (off).                                                *)
(***************************************************************************)
Year(d) == d \div 10000
Month(d) == (d \div 100) % 100
Day(d) == d % 100
Date(year, month, day) == year * 10000 + month * 100 + day

IsLeap(year) == (year % 4 = 0 /\ year % 100 # 0) \/ year % 400 = 0

\* calendar.monthrange(year, month)[1]: the number of days of the month.
monthrange(year, month) ==
    CASE month = 2 -> IF IsLeap(year) THEN 29 ELSE 28
      [] month \in {4, 6, 9, 11} -> 30
      [] OTHER -> 31

\* date.replace(day=day)
replace_day(d, day) == Date(Year(d), Month(d), day)

\* The number of days before the first day of each month of a year that
\* is not a leap year (datetime._DAYS_BEFORE_MONTH).
DAYS_BEFORE_MONTH == <<0, 31, 59, 90, 120, 151, 181, 212, 243, 273, 304, 334>>

\* The number of days of the year before the first day of the month.
days_before_month(year, month) ==
    DAYS_BEFORE_MONTH[month] + (IF month > 2 /\ IsLeap(year) THEN 1 ELSE 0)

\* date.toordinal(): the number of the day, 1 for the first of January of
\* the year 1.
toordinal(d) ==
    LET y == Year(d) - 1
    IN  y * 365 + y \div 4 - y \div 100 + y \div 400 + days_before_month(Year(d), Month(d)) + Day(d)

\* date.fromordinal(n)
fromordinal(n) ==
    LET n0 == n - 1
        n400 == n0 \div 146097
        r400 == n0 % 146097
        n100 == r400 \div 36524
        r100 == r400 % 36524
        n4 == r100 \div 1461
        r4 == r100 % 1461
        n1 == r4 \div 365
        r1 == r4 % 365
        year == n400 * 400 + 1 + n100 * 100 + n4 * 4 + n1
        guess == (r1 + 50) \div 32
        month == IF days_before_month(year, guess) > r1 THEN guess - 1 ELSE guess
    IN  IF n1 = 4 \/ n100 = 4 THEN Date(year - 1, 12, 31)
        ELSE Date(year, month, r1 - days_before_month(year, month) + 1)

\* date + datetime.timedelta(days=n), n of either sign.
AddDays(d, n) == fromordinal(toordinal(d) + n)

\* df["date"].min() and df["date"].max() of a frame with rows.
MinDate(df) == CHOOSE d \in {df[i].date : i \in DOMAIN df} : \A i \in DOMAIN df : d <= df[i].date
MaxDate(df) == CHOOSE d \in {df[i].date : i \in DOMAIN df} : \A i \in DOMAIN df : df[i].date <= d

EDGE_TICK_DESCRIPTION ==
    <<"a", "u", "t", "o", "-", "g", "e", "n", "e", "r", "a", "t", "e", "d", " ", "t", "i", "c", "k">>
SENTINEL_TICK_DESCRIPTION ==
    <<"a", "u", "t", "o", "-", "g", "e", "n", "e", "r", "a", "t", "e", "d", " ",
      "s", "e", "n", "t", "i", "n", "e", "l", " ", "t", "i", "c", "k">>
EDGE_TICK_TAG == <<"o", "t", "h", "e", "r">>
EDGE_TICK_SUBTAG == <<"a", "u", "t", "o", "-", "t", "i", "c", "k">>

\* row with the column name set to value: with_columns(name=pl.lit(value)).
WithColumn(row, name, value) == (name :> value) @@ row

\* A frame of the rows f[1], ..., f[n], held as a tuple of rows.
DataFrame(f) == f \o <<>>

\* df.with_columns(name=pl.lit(value))
with_column(df, name, value) == DataFrame([i \in DOMAIN df |-> WithColumn(df[i], name, value)])

RECURSIVE Distinct(_)
\* The values of a sequence, each once, in the order of first appearance.
Distinct(s) ==
    IF s = <<>> THEN <<>>
    ELSE LET init == Distinct(SubSeq(s, 1, Len(s) - 1))
         IN  IF s[Len(s)] \in Range(init) THEN init ELSE Append(init, s[Len(s)])

\* df.group_by(*columns): the keys of the groups.
group_by(df, columns) == Distinct(DataFrame([i \in DOMAIN df |-> [c \in columns |-> df[i][c]]]))

\* EdgeTick(enable, pad_days, cap_same_month)
EdgeTick(enable, pad_days, cap_same_month) ==
    [enable |-> enable, pad_days |-> pad_days, cap_same_month |-> cap_same_month]

\* AnalysisEdgeTicks(min, max) and its default, both edge ticks disabled.
AnalysisEdgeTicks(min, max) == [min |-> min, max |-> max]
NO_EDGE_TICKS == AnalysisEdgeTicks(EdgeTick(FALSE, 31, TRUE), EdgeTick(FALSE, 31, TRUE))

\* _generate_edge_ticks(df, date): one row for each (account, source) of df.
generate_edge_ticks(df, date) ==
    LET account_sources == group_by(df, {"account", "source"})
    IN  [i \in DOMAIN account_sources |->
            LET generated == Row(account_sources[i].account, account_sources[i].source, date, 0,
                                 EDGE_TICK_DESCRIPTION)
            IN  TaggedRow(HashedRow(generated, hash(concat_str(generated))),
                          Some(EDGE_TICK_TAG), Some(EDGE_TICK_SUBTAG))]

\* The date of the minimum edge ticks.
edge_date_min(df, config_min) ==
    LET min_date == MinDate(df)
        edge_date == AddDays(min_date, 0 - config_min.pad_days)
        capped == replace_day(min_date, 1)
    IN  IF config_min.cap_same_month /\ capped > edge_date THEN capped ELSE edge_date


\* Variant: the date of the maximum edge ticks without the cap.
edge_date_max_uncapped(df, config_max) == AddDays(MaxDate(df), config_max.pad_days)

\* The date of the maximum edge ticks.
edge_date_max(df, config_max) ==
    LET max_date == MaxDate(df)
        edge_date == AddDays(max_date, config_max.pad_days)
        last_day == monthrange(Year(max_date), Month(max_date))
        capped == replace_day(max_date, last_day)
    IN  IF config_max.cap_same_month /\ capped < edge_date THEN capped ELSE edge_date

\* df["date"].min() of a frame without rows is None, and None - timedelta
\* raises TypeError.
add_edge_ticks_raises(df, edge_ticks) ==
    df = <<>> /\ (edge_ticks.min.enable \/ edge_ticks.max.enable)

\* _add_edge_ticks(df), for a frame on which it does not raise.
add_edge_ticks(df, edge_ticks) ==
    with_column(df, "is_edge_tick", FALSE)
    \o (IF edge_ticks.min.enable
        THEN with_column(generate_edge_ticks(df, edge_date_min(df, edge_ticks.min)), "is_edge_tick", TRUE)
        ELSE <<>>)
    \o (IF edge_ticks.max.enable
        THEN with_column(generate_edge_ticks(df, edge_date_max(df, edge_ticks.max)), "is_edge_tick", TRUE)
        ELSE <<>>)

RECURSIVE MonthsLoop(_, _, _)
\* The loop of _months_in_range.
MonthsLoop(all_months, current, max_date) ==
    IF current < max_date
    THEN MonthsLoop(Append(all_months, current), replace_day(AddDays(current, 32), 1), max_date)
    ELSE all_months

\* Variant: the loop ends at the first day of the month of max_date.
months_in_range_exclusive(min_date, max_date) ==
    MonthsLoop(<<>>, replace_day(min_date, 1), replace_day(max_date, 1))

\* _months_in_range(min_date, max_date)
months_in_range(min_date, max_date) ==
    MonthsLoop(<<>>, replace_day(min_date, 1), replace_day(max_date, 2))

\* left.join(right, how="cross"): every row of left with every row of right,
\* the rows of left outermost.
cross_join(left, right) ==
    DataFrame([k \in 1..(Len(left) * Len(right)) |->
                  left[((k - 1) \div Len(right)) + 1] @@ right[((k - 1) % Len(right)) + 1]])

\* all_dates.min() of a frame without rows is None, and None.replace raises
\* AttributeError.
add_sentinel_ticks_raises(df) == df = <<>>

\* _add_sentinel_ticks(df), for a frame with rows.
add_sentinel_ticks(df) ==
    LET flagged == with_column(df, "is_sentinel_tick", FALSE)
        listed == months_in_range(MinDate(df), MaxDate(df))
        months == [i \in DOMAIN listed |-> [date |-> listed[i]]]
        combinations ==
            cross_join(cross_join(cross_join(group_by(df, {"tag", "subtag"}), months),
                                  group_by(df, {"account"})),
                       group_by(df, {"source"}))
        sentinels ==
            [i \in DOMAIN combinations |->
                LET c == combinations[i]
                    generated == Row(c.account, c.source, c.date, 0, SENTINEL_TICK_DESCRIPTION)
                IN  WithColumn(
                        WithColumn(TaggedRow(HashedRow(generated, hash(concat_str(generated))),
                                             c.tag, c.subtag),
                                   "is_edge_tick", FALSE),
                        "is_sentinel_tick", TRUE)]
    IN  flagged \o sentinels

\* Filters.inverted()
Filters_inverted(f) == [f EXCEPT !.invert = ~f.invert]

\* Variant: the flag of a row is the predicate of the filters on the row.
add_boolean_column_by_row(df, name, filters) ==
    DataFrame([i \in DOMAIN df |-> WithColumn(df[i], name, Filters_predicate(filters, df[i]) = "T")])

\* _add_boolean_column(df, name, filters): the flag of a row is whether its
\* hash is among the hashes of the rows the filters keep.
add_boolean_column(df, name, filters) ==
    LET hashes == Hashes(Filters_apply(filters, df))
    IN  DataFrame([i \in DOMAIN df |-> WithColumn(df[i], name, df[i].hash \in hashes)])

\* The rows of df in ascending order on the columns by, rows equal on all of
\* them in the order they have in df: a row's place is the number of rows
\* that sort before it or are equal to it and stand before it.
StableSort(df, by) ==
    LET place == [i \in DOMAIN df |->
                     1 + Cardinality({j \in DOMAIN df :
                                         \/ RowLess(df[j], df[i], by)
                                         \/ j < i /\ ~RowLess(df[i], df[j], by)})]
    IN  DataFrame([k \in DOMAIN df |-> df[CHOOSE i \in DOMAIN df : place[i] = k]])


\* DataFrame.sort(by): the frames it can return. maintain_order is left at
\* False, so rows equal on all the columns come in an order the sort picks:
\* the order they have in df, or the opposite one.
DataFrame_sort(df, by) == {StableSort(df, by), StableSort(Reverse(df), by)}

\* The key of a row in the partition by the columns over.
PartitionKey(row, over) == [c \in over |-> row[c]]

RECURSIVE SumAmounts(_)
\* pl.col("amount").sum() over the rows of df.
SumAmounts(df) ==
    IF df = <<>> THEN 0
    ELSE IF Len(df) = 1 THEN df[1].amount
    ELSE LET half == Len(df) \div 2
         IN  SumAmounts(SubSeq(df, 1, half)) + SumAmounts(SubSeq(df, half + 1, Len(df)))

\* pl.col("amount").cum_sum() on each group of the partition of df by the
\* columns over, every value at the place of its row: the sum of the rows of
\* the group down to the row.
CumSum(df, over) ==
    [i \in DOMAIN df |->
        SumAmounts(SelectSeq(SubSeq(df, 1, i),
                             LAMBDA row : PartitionKey(row, over) = PartitionKey(df[i], over)))]

\* Variant: balance_account accumulates over all rows.
cum_sum_over_all(df, over) == CumSum(df, {})

\* pl.col("amount").cum_sum().over(*over)
cum_sum_over(df, over) == CumSum(df, over)

\* with_columns(balance_total=..., balance_inexternal=..., ...) on sorted
\* rows.
with_balances(df) ==
    LET balance_total == cum_sum_over(df, {})
        balance_inexternal == cum_sum_over(df, {"is_external"})
        balance_account == cum_sum_over(df, {"account"})
        balance_source == cum_sum_over(df, {"account", "source"})
    IN  DataFrame([i \in DOMAIN df |->
            df[i] @@ [balance_total |-> balance_total[i], balance_inexternal |-> balance_inexternal[i],
                      balance_account |-> balance_account[i], balance_source |-> balance_source[i]]])

\* AnalysisAnonymization(enable), with anonymize_accounts, anonymize_sources,
\* anonymize_descriptions and anonymize_tags switched off.
AnalysisAnonymization(enable) ==
    [enable |-> enable, anonymize_accounts |-> FALSE, anonymize_sources |-> FALSE,
     anonymize_descriptions |-> FALSE, anonymize_tags |-> FALSE]

\* scale = random.random() * (max_scale - min_scale) + min_scale for the
\* default scale (1_000_000, 1_000_000_000_000): the values random.random()
\* = 0 and random.random() = 1e-6 yield.
ScaleChoices == {1000000, 2000000}

\* _anonymize_data(df) with the drawn scale.
anonymize_data(df, scale) == DataFrame([i \in DOMAIN df |-> [df[i] EXCEPT !.amount = @ * scale]])

\* config().general.multi_column_delimiter
multi_column_delimiter == <<" ", "-", " ">>

\* _derive_month, _derive_tags and _derive_account_source on one row; a
\* concatenation with a null is null.
derive_columns(row) ==
    row @@ [month |-> NatStr(Year(row.date)) \o <<"-">> \o Pad2(Month(row.date)),
            tags |-> IF IsNull(row.tag) \/ IsNull(row.subtag) THEN None
                     ELSE Some(Val(row.tag) \o multi_column_delimiter \o Val(row.subtag)),
            account_source |-> row.account \o multi_column_delimiter \o row.source]

ENRICHED_SCHEMA ==
    TAGGED_SCHEMA \cup {"month", "tags", "is_edge_tick", "is_sentinel_tick", "is_breakdown", "is_external",
                        "account_source", "balance_total", "balance_inexternal", "balance_account",
                        "balance_source"}

\* The configuration of the analysis the enrichment reads.
AnalysisConfig(ticks, external, breakdown, filters, anonymize) ==
    [edge_ticks |-> ticks, external_filters |-> external, breakdown_filters |-> breakdown,
     filters |-> filters, anonymization |-> anonymize]

\* get_post_processed_source_data() up to the cumulative balances, each
\* statement on the frames the statement before it yields: the frames the
\* sort can yield, each with its balances.
balanced_source_data(ledger, file, rules, conf) ==
    LET tagged == {DataFrame(apply_tags_with_presets(ledger, file, rules))}
        edged == {add_edge_ticks(df, conf.edge_ticks) : df \in tagged}
        ticked == {add_sentinel_ticks(df) : df \in edged}
        breakdown == {add_boolean_column(df, "is_breakdown", Filters_inverted(conf.breakdown_filters)) :
                         df \in ticked}
        external == {add_boolean_column(df, "is_external", conf.external_filters) : df \in breakdown}
        sorted_source == UNION {DataFrame_sort(df, SORT_ORDER) : df \in external}
    IN  {with_balances(df) : df \in sorted_source}

\* Variant: the amounts are scaled whether or not the anonymization is
\* enabled.
post_process_anonymized(balanced, conf, scale) ==
    LET filtered == Filters_apply(conf.filters, balanced)
        anonymized == anonymize_data(filtered, scale)
    IN  DataFrame([i \in DOMAIN anonymized |-> derive_columns(anonymized[i])])

\* get_post_processed_source_data() from the analysis filters on, with the
\* scale the anonymization draws.
post_process(balanced, conf, scale) ==
    LET filtered == Filters_apply(conf.filters, balanced)
        anonymized == IF conf.anonymization.enable THEN anonymize_data(filtered, scale) ELSE filtered
    IN  DataFrame([i \in DOMAIN anonymized |-> derive_columns(anonymized[i])])

\* SourceData._filter_net(df, incomes_or_expenses)
filter_net(src, df, incomes_or_expenses, net_by_tag) ==
    LET amount_filter(amount) == IF incomes_or_expenses THEN amount > 0 ELSE amount < 0
        tags_net(tag) == SumAmounts(SelectSeq(src, LAMBDA row : row.tag = tag))
        tag_values == {src[i].tag : i \in DOMAIN src}
        kept_tags == {Val(tag) : tag \in {t \in tag_values : ~IsNull(t) /\ amount_filter(tags_net(t))}}
        kept == IF net_by_tag
                THEN SelectSeq(df, LAMBDA row : IsIn3(row.tag, kept_tags) = "T")
                ELSE SelectSeq(df, LAMBDA row : amount_filter(row.amount))
    IN  IF incomes_or_expenses THEN kept
        ELSE DataFrame([i \in DOMAIN kept |-> [kept[i] EXCEPT !.amount = @ * (0 - 1)]])

\* round_columns(df): the float columns rounded to rounding_decimals = 2
\* places, which leaves the whole-valued amounts and balances of the model
\* as they are.
round_columns(df) == df

\* The keyword arguments of SourceData.get.
GetArguments ==
    [breakdown : BOOLEAN, include_external : BOOLEAN, incomes : BOOLEAN, expenses : BOOLEAN,
     sentinels : BOOLEAN, edge_ticks : BOOLEAN, round : BOOLEAN]

\* The defaults of the keyword arguments.
NO_GET_ARGUMENTS ==
    [breakdown |-> FALSE, include_external |-> FALSE, incomes |-> FALSE, expenses |-> FALSE,
     sentinels |-> FALSE, edge_ticks |-> FALSE, round |-> FALSE]

\* Variant: the sentinel ticks are dropped unless sentinels or edge_ticks is
\* passed.
SourceData_get_either(src, args, net_by_tag) ==
    LET kept == SelectSeq(src, LAMBDA row : (args.sentinels \/ args.edge_ticks) \/ ~row.is_sentinel_tick)
    IN  IF args.edge_ticks THEN kept ELSE SelectSeq(kept, LAMBDA row : ~row.is_edge_tick)

\* SourceData.get(**args) on the loaded table src.
SourceData_get(src, args, net_by_tag) ==
    LET broken == IF args.breakdown THEN SelectSeq(src, LAMBDA row : row.is_breakdown) ELSE src
        internal == IF ~args.include_external THEN SelectSeq(broken, LAMBDA row : ~row.is_external)
                    ELSE broken
        net == IF args.incomes THEN filter_net(src, internal, TRUE, net_by_tag)
               ELSE IF args.expenses THEN filter_net(src, internal, FALSE, net_by_tag)
               ELSE internal
        unsentineled == IF ~args.sentinels THEN SelectSeq(net, LAMBDA row : ~row.is_sentinel_tick) ELSE net
        unticked == IF ~args.edge_ticks THEN SelectSeq(unsentineled, LAMBDA row : ~row.is_edge_tick)
                    ELSE unsentineled
    IN  IF args.round THEN round_columns(unticked) ELSE unticked

(***************************************************************************)
(* Inputs: ledgers, configuration and what the user types.                 *)
(***************************************************************************)
SeqsUpTo(S, n) == UNION {[1..k -> S] : k \in 0..n}

\* load_source_data(): the rows of the CSV files, sorted by date and amount
\* (rows equal in both in any order).
Ledgers ==
    {l \in SeqsUpTo(RowUniverse, MaxRows) :
        \A i \in DOMAIN l : i < Len(l) =>
            \/ l[i].date < l[i + 1].date
            \/ l[i].date = l[i + 1].date /\ l[i].amount <= l[i + 1].amount}

\* config().tag.default_tag / default_subtag as tag_interactively() reads
\* them: no default, or a default tag whose subtag is left unset.
DefaultTagsChoices == {None, Some(Tags(Some(<<"D">>), None))}

CANCEL == <<"c", "a", "n", "c", "e", "l">>
TagInputs == {<<"F">>, <<>>, CANCEL}
SubtagInputs == {<<"c">>, CANCEL}

\* The frames DataFrame.sort("date") can return: ascending by date, rows of
\* one date in any order.
SortedByDate(data) ==
    {[i \in DOMAIN data |-> data[p[i]]] : p \in OrdersFrom(data, DOMAIN data, FALSE)}

(***************************************************************************)
(* State.                                                                  *)
(***************************************************************************)
VARIABLES
    source_data,        \* the ledger load_source_data() returns
    default_tags,       \* configured default Tags, nullable
    tags_file,          \* the Tag Store file: [exists, lines]
    source,             \* Tagger.source: the joined view
    tags,               \* Tagger.tags: the in-memory tag table
    skipped_indices,    \* local of Tagger.tag_interactively
    index,              \* row being presented, nullable
    guess,              \* guess shown with it, nullable
    tag_input,          \* tag typed in a manual entry, nullable
    pc,                 \* position of the run: "idle", "prompt", "input_tag", "input_subtag", "done", "raised", ...
    result,             \* value tag_interactively returned: "", "False", "None", "True"
    accepted,           \* the entries upserted in this session, in order
    answered,           \* prompts answered by skip, guess or a completed manual entry
    untagged_at_start,  \* number of null-tag rows when the session started
    preset_rules,       \* config().tag.preset_rules
    delete_filters,     \* config().tag.delete_filters
    delete_unused,      \* config().tag.delete_unused
    bak,                \* the directory bak next to the Tag Store file: [exists, files]
    pending,            \* the deletion the prompt "Delete tags? [y/N]" asks about, nullable
    prompts,            \* the deletion prompts answered in this run, in order
    analysis_filters,   \* config().analysis.filters
    allow_untagged,     \* config().analysis.allow_untagged
    reported,           \* the table "Missing tags" the analysis printed, nullable
    df_schema,          \* df.collect_schema() of a validate_schema call: column name to dtype
    expected_schema,    \* expected_schema of the call: [column, dtype] in dict order
    errors,             \* the errors the call collected, nullable
    edge_ticks,         \* config().analysis.edge_ticks
    external_filters,   \* config().analysis.external_filters
    breakdown_filters,  \* config().analysis.breakdown_filters
    anonymization,      \* config().analysis.anonymization
    loaded,             \* the tables SourceData.load() returned in the runs so far, in order
    got                 \* the last call of SourceData.get: [args, net_by_tag, df], nullable

vars == <<source_data, default_tags, tags_file, source, tags, skipped_indices, index, guess,
          tag_input, pc, result, accepted, answered, untagged_at_start, preset_rules,
          delete_filters, delete_unused, bak, pending, prompts, analysis_filters, allow_untagged,
          reported, df_schema, expected_schema, errors, edge_ticks, external_filters,
          breakdown_filters, anonymization, loaded, got>>

config == <<source_data, default_tags, preset_rules, delete_filters, delete_unused,
            analysis_filters, allow_untagged, edge_ticks, external_filters, breakdown_filters,
            anonymization>>
enrichment == <<loaded, got>>
schema_call == <<df_schema, expected_schema, errors>>
analysis == <<reported>>
deletion == <<bak, pending, prompts>>
store == <<tags_file, tags, source>>

Untagged(src) == {i \in 0..(Len(src) - 1) : IsNull(src[i + 1].tag)}

\* The Tagger of the running session and its file.
TaggerState == [source |-> source, tags |-> tags, file |-> tags_file]
RowIndices == 0..(Len(source) - 1)
FileTable == read_csv(tags_file.lines)

\* The tag pairs the Tagger can be asked to store.
TagChoices ==
    {Tags(Some(tag), Some(subtag)) : tag \in TagInputs \ {CANCEL}, subtag \in SubtagInputs \ {CANCEL}}
        \cup {UNKNOWN_TAGS} \cup {Val(d) : d \in DefaultTagsChoices \ {None}}

Init ==
    /\ source_data \in Ledgers
    /\ default_tags \in DefaultTagsChoices
    /\ tags_file = [exists |-> FALSE, lines |-> <<>>]
    /\ source = <<>>
    /\ tags = <<>>
    /\ skipped_indices = {}
    /\ index = None
    /\ guess = None
    /\ tag_input = None
    /\ pc = "idle"
    /\ result = ""
    /\ accepted = <<>>
    /\ answered = 0
    /\ untagged_at_start = 0
    /\ preset_rules = <<>>
    /\ delete_filters = NO_FILTERS
    /\ delete_unused = FALSE
    /\ bak = [exists |-> FALSE, files |-> <<>>]
    /\ pending = None
    /\ prompts = <<>>
    /\ analysis_filters = NO_FILTERS
    /\ allow_untagged = FALSE
    /\ reported = None
    /\ df_schema = <<>>
    /\ expected_schema = <<>>
    /\ errors = None
    /\ edge_ticks = NO_EDGE_TICKS
    /\ external_filters = [NO_FILTERS EXCEPT !.invert = TRUE]
    /\ breakdown_filters = NO_FILTERS
    /\ anonymization = AnalysisAnonymization(FALSE)
    /\ loaded = <<>>
    /\ got = None

(***************************************************************************)
(* Tagger.tag_interactively: one action per input, each running the loop   *)
(* up to the next blocking read or to the return.                          *)
(***************************************************************************)
\* Top of the while loop with the joined view src and the skipped set
\* skipped: return None when no row is left, else show the next prompt.
LoopTop(src, skipped) ==
    LET next == get_untagged_index(src, skipped)
    IN  /\ tag_input' = None
        /\ IF IsNull(next)
           THEN /\ pc' = "done"
                /\ result' = "None"
                /\ index' = None
                /\ guess' = None
           ELSE /\ pc' = "prompt"
                /\ result' = result
                /\ index' = next
                /\ \E g \in Guesses(src, Val(next), default_tags) : guess' = Some(g)

\* The state after an exception left the loop.
Raise ==
    /\ pc' = "raised"
    /\ UNCHANGED <<result, index, guess, tag_input>>

\* tag_interactively(): load the ledger, build the Tagger and enter its loop.
Start ==
    /\ pc = "idle"
    /\ LET file == TouchTagsFile(tags_file)
           tagged == apply_tags(WithoutPresetRows(source_data, preset_rules), tags_file)
       IN  /\ tags_file' = file
           /\ tags' = read_tags_file(file)
           /\ skipped_indices' = {}
           /\ accepted' = <<>>
           /\ answered' = 0
           /\ IF ~validate_schema(tagged, TAGGED_SCHEMA)
              THEN /\ source' = source
                   /\ untagged_at_start' = 0
                   /\ Raise
              ELSE \E src \in SortedByDate(tagged) :
                   /\ source' = src
                   /\ untagged_at_start' = Cardinality(Untagged(src))
                   /\ IF IsNull(get_untagged_index(src, {}))
                      THEN /\ pc' = "done"
                           /\ result' = "False"
                           /\ index' = None
                           /\ guess' = None
                           /\ tag_input' = None
                      ELSE /\ pc' = "prompt"
                           /\ result' = ""
                           /\ index' = get_untagged_index(src, {})
                           /\ tag_input' = None
                           /\ \E g \in Guesses(src, Val(index'), default_tags) : guess' = Some(g)
    /\ UNCHANGED <<config, enrichment, schema_call, analysis, deletion>>

\* key "q": break, return True.
KeyQuit ==
    /\ pc = "prompt"
    /\ pc' = "done"
    /\ result' = "True"
    /\ index' = None
    /\ guess' = None
    /\ UNCHANGED <<config, enrichment, schema_call, analysis, deletion, store, skipped_indices, tag_input, accepted, answered, untagged_at_start>>

\* key "t": print describe_all_tags().
KeyShowTags ==
    /\ pc = "prompt"
    /\ LoopTop(source, skipped_indices)
    /\ UNCHANGED <<config, enrichment, schema_call, analysis, deletion, store, skipped_indices, accepted, answered, untagged_at_start>>

\* Variant: a skip also stores the guess for the skipped row.
KeySkip_stored ==
    /\ pc = "prompt"
    /\ skipped_indices' = skipped_indices \cup {Val(index)}
    /\ answered' = answered + 1
    /\ \E st \in {Tagger_apply_tags([source |-> source, tags |-> tags, file |-> tags_file],
                                    Val(index), Val(guess))} :
        /\ tags' = st.tags
        /\ tags_file' = st.file
        /\ source' = st.source
        /\ LoopTop(st.source, skipped_indices')
    /\ UNCHANGED <<config, enrichment, schema_call, analysis, deletion, accepted, untagged_at_start>>

\* key "s": skip the entry.
KeySkip ==
    /\ pc = "prompt"
    /\ skipped_indices' = skipped_indices \cup {Val(index)}
    /\ answered' = answered + 1
    /\ LoopTop(source, skipped_indices')
    /\ UNCHANGED <<config, enrichment, schema_call, analysis, deletion, store, accepted, untagged_at_start>>

\* key "i", enter or space: ask for the tag.
KeyInput ==
    /\ pc = "prompt"
    /\ pc' = "input_tag"
    /\ UNCHANGED <<config, enrichment, schema_call, analysis, deletion, store, skipped_indices, index, guess, tag_input, result, accepted,
                   answered, untagged_at_start>>

\* Tagger.apply_tags(index, t) from the loop, then the loop's next round.
Apply(t) ==
    \E st \in {Tagger_apply_tags([source |-> source, tags |-> tags, file |-> tags_file], Val(index), t)} :
        /\ source' = st.source
        /\ tags' = st.tags
        /\ tags_file' = st.file
        /\ accepted' = Append(accepted,
               [hash |-> get_row(source, Val(index)).hash, tag |-> t.tag, subtag |-> t.subtag,
                index |-> Val(index), previous |-> EntriesOf(tags, get_row(source, Val(index)).hash)])
        /\ answered' = answered + 1
        /\ IF st.ok THEN LoopTop(st.source, skipped_indices) ELSE Raise
        /\ UNCHANGED <<config, enrichment, schema_call, analysis, deletion, skipped_indices, untagged_at_start>>

\* "Tag (or 'cancel'): " answered with cancel.
InputTagCancel ==
    /\ pc = "input_tag"
    /\ CANCEL \in TagInputs
    /\ LoopTop(source, skipped_indices)
    /\ UNCHANGED <<config, enrichment, schema_call, analysis, deletion, store, skipped_indices, accepted, answered, untagged_at_start>>

\* "Tag (or 'cancel'): " answered with a tag: ask for the subtag.
InputTag ==
    /\ pc = "input_tag"
    /\ \E text \in TagInputs \ {CANCEL} :
        /\ pc' = "input_subtag"
        /\ tag_input' = Some(text)
    /\ UNCHANGED <<config, enrichment, schema_call, analysis, deletion, store, skipped_indices, index, guess, result, accepted, answered,
                   untagged_at_start>>

\* "Subtag (or 'cancel'): " answered with cancel.
InputSubtagCancel ==
    /\ pc = "input_subtag"
    /\ CANCEL \in SubtagInputs
    /\ LoopTop(source, skipped_indices)
    /\ UNCHANGED <<config, enrichment, schema_call, analysis, deletion, store, skipped_indices, accepted, answered, untagged_at_start>>

\* "Subtag (or 'cancel'): " answered with a subtag: apply the entry.
InputSubtag ==
    /\ pc = "input_subtag"
    /\ \E text \in SubtagInputs \ {CANCEL} : Apply(Tags(tag_input, Some(text)))

\* key "g" or tab: use the guess.
KeyGuess ==
    /\ pc = "prompt"
    /\ Apply(Val(guess))

\* Any other key: "No action selected."
KeyOther ==
    /\ pc = "prompt"
    /\ LoopTop(source, skipped_indices)
    /\ UNCHANGED <<config, enrichment, schema_call, analysis, deletion, store, skipped_indices, accepted, answered, untagged_at_start>>

\* The process ends after tag_interactively returned: only the file and the
\* configuration outlive it.
Exit ==
    /\ pc = "done"
    /\ pc' = "idle"
    /\ source' = <<>>
    /\ tags' = <<>>
    /\ skipped_indices' = {}
    /\ result' = ""
    /\ accepted' = <<>>
    /\ answered' = 0
    /\ untagged_at_start' = 0
    /\ UNCHANGED <<config, enrichment, schema_call, analysis, deletion, tags_file, index, guess, tag_input>>

Next ==
    \/ Start
    \/ Exit
    \/ KeyQuit
    \/ KeyShowTags
    \/ KeySkip
    \/ KeyInput
    \/ InputTagCancel
    \/ InputTag
    \/ InputSubtagCancel
    \/ InputSubtag
    \/ KeyGuess
    \/ KeyOther

Spec == Init /\ [][Next]_vars

(***************************************************************************)
(* Tagger.apply_tags as an operation of its own: a Tagger is built over    *)
(* the ledger and apply_tags is called for any row, tagged or not, with    *)
(* any tag pair, any number of times.                                      *)
(***************************************************************************)
UpsertInit == Init /\ IsNull(default_tags)

\* The tag pairs of the calls: one with an empty subtag, one with none.
UpsertTags == {UNKNOWN_TAGS} \cup {Val(d) : d \in DefaultTagsChoices \ {None}}

\* Tagger(source_data=..., default_tags=...)
NewTagger ==
    /\ pc = "idle"
    /\ tags_file' = TouchTagsFile(tags_file)
    /\ tags' = read_tags_file(tags_file)
    /\ source' \in SortedByDate(apply_tags(source_data, tags_file))
    /\ pc' = "tagger"
    /\ UNCHANGED <<config, enrichment, schema_call, analysis, deletion, skipped_indices, index, guess, tag_input, result, accepted, answered,
                   untagged_at_start>>

\* tagger.apply_tags(i, t); accepted keeps the last call alone.
Upsert ==
    /\ pc = "tagger"
    /\ \E i \in RowIndices, t \in UpsertTags :
        \E st \in {Tagger_apply_tags(TaggerState, i, t)} :
            /\ source' = st.source
            /\ tags' = st.tags
            /\ tags_file' = st.file
            /\ accepted' = <<[hash |-> get_row(source, i).hash, tag |-> t.tag, subtag |-> t.subtag,
                              index |-> i, previous |-> EntriesOf(tags, get_row(source, i).hash)]>>
            /\ pc' = IF st.ok THEN "tagger" ELSE "raised"
    /\ UNCHANGED <<config, enrichment, schema_call, analysis, deletion, skipped_indices, index, guess, tag_input, result, answered,
                   untagged_at_start>>

UpsertNext == NewTagger \/ Upsert

UpsertSpec == UpsertInit /\ [][UpsertNext]_vars

(***************************************************************************)
(* Tagger.guess_tags as an operation of its own: a Tagger holds a joined   *)
(* view of a longer ledger with three descriptions and two stored tag      *)
(* pairs, and guess_tags is called for any row.                            *)
(***************************************************************************)
MaxGuessRows == 4

\* The tagged rows the view can hold at each position: the dates ascend with
\* the position, positions 2k and 2k+1 sharing one date.
GuessRowKinds ==
    [i \in 1..MaxGuessRows |->
        {LET row == Row(<<"a">>, <<"b", "c">>, 20240301 + (i \div 2), 5, k[1])
         IN  TaggedRow(HashedRow(row, hash(concat_str(row))), k[2].tag, k[2].subtag) :
            k \in ({<<"X">>, <<"Y">>} \X {Tags(Some(<<"F">>), Some(<<"c">>)), Tags(Some(<<"D">>), None)})
                     \cup ({<<"Y">>, <<"R">>} \X {Tags(None, None)})}]

RECURSIVE GuessFramesOf(_)
\* The joined views of n rows: rows of one fingerprint carry one tag pair.
GuessFramesOf(n) ==
    IF n = 0 THEN {<<>>}
    ELSE {f \in {Append(g, r) : g \in GuessFramesOf(n - 1), r \in GuessRowKinds[n]} :
             \A i \in DOMAIN f :
                 f[i].hash = f[n].hash => (f[i].tag = f[n].tag /\ f[i].subtag = f[n].subtag)}

GuessFrames == UNION {GuessFramesOf(n) : n \in 0..MaxGuessRows}

GuessInit ==
    /\ source_data = <<>>
    /\ default_tags \in DefaultTagsChoices
    /\ tags_file = [exists |-> TRUE, lines |-> <<>>]
    /\ source \in GuessFrames
    /\ tags = <<>>
    /\ skipped_indices = {}
    /\ index = None
    /\ guess = None
    /\ tag_input = None
    /\ pc = "tagger"
    /\ result = ""
    /\ accepted = <<>>
    /\ answered = 0
    /\ untagged_at_start = 0
    /\ preset_rules = <<>>
    /\ delete_filters = NO_FILTERS
    /\ delete_unused = FALSE
    /\ bak = [exists |-> FALSE, files |-> <<>>]
    /\ pending = None
    /\ prompts = <<>>
    /\ analysis_filters = NO_FILTERS
    /\ allow_untagged = FALSE
    /\ reported = None
    /\ df_schema = <<>>
    /\ expected_schema = <<>>
    /\ errors = None
    /\ edge_ticks = NO_EDGE_TICKS
    /\ external_filters = [NO_FILTERS EXCEPT !.invert = TRUE]
    /\ breakdown_filters = NO_FILTERS
    /\ anonymization = AnalysisAnonymization(FALSE)
    /\ loaded = <<>>
    /\ got = None

\* tagger.guess_tags(i)
GuessTags ==
    /\ pc = "tagger"
    /\ \E i \in RowIndices :
        /\ index' = Some(i)
        /\ guess' \in {Some(g) : g \in Guesses(source, i, default_tags)}
    /\ UNCHANGED <<config, enrichment, schema_call, analysis, deletion, tags_file, source, tags, skipped_indices, tag_input, pc, result,
                   accepted, answered, untagged_at_start>>

GuessNext == GuessTags

GuessSpec == GuessInit /\ [][GuessNext]_vars

(***************************************************************************)
(* apply_tags with preset rules as an operation of its own: the ledger is  *)
(* joined with a Tag Store written by earlier sessions and the preset      *)
(* rules of the configuration are applied to the joined rows.              *)
(***************************************************************************)
MaxRules == 2

\* Preset rules: by description, by account, by start date, and one whose
\* only filter is on tags, which apply_tag_presets clears.
PresetRuleKinds ==
    { TagPresetRule(<<"k">>, <<"a">>, [NO_FILTERS EXCEPT !.description = Some(<<"X">>)]),
      TagPresetRule(<<"l">>, <<"b">>, [NO_FILTERS EXCEPT !.account = Some(<<"a">>)]),
      TagPresetRule(<<"n">>, <<"c">>, [NO_FILTERS EXCEPT !.start_date = Some(20240207)]),
      TagPresetRule(<<"o">>, <<"e">>, [NO_FILTERS EXCEPT !.tags = Some({<<"F">>})]) }

\* The tag pair the user gave a transaction in an earlier session.
UserTags(row) ==
    IF row.description = <<"X">> THEN Tags(Some(<<"F">>), Some(<<"c">>)) ELSE Tags(Some(<<"D">>), None)

\* The Tag Store file after earlier sessions tagged the transactions rows.
StoreOfRows(rows) ==
    LET hashed == derive_hash(rows)
        entries == [i \in DOMAIN hashed |->
                       [tag |-> UserTags(hashed[i]).tag, subtag |-> UserTags(hashed[i]).subtag,
                        hash |-> hashed[i].hash]]
    IN  write_tags_file(unique_keep_last(entries), [exists |-> FALSE, lines |-> <<>>])

\* The stores of the runs: no file yet, the first transaction tagged, every
\* transaction tagged.
PresetStores(ledger) ==
    {[exists |-> FALSE, lines |-> <<>>], StoreOfRows(IF ledger = <<>> THEN <<>> ELSE <<ledger[1]>>), StoreOfRows(ledger)}

PresetInit ==
    /\ source_data \in Ledgers
    /\ default_tags = None
    /\ tags_file \in PresetStores(source_data)
    /\ source = <<>>
    /\ tags = <<>>
    /\ skipped_indices = {}
    /\ index = None
    /\ guess = None
    /\ tag_input = None
    /\ pc = "idle"
    /\ result = ""
    /\ accepted = <<>>
    /\ answered = 0
    /\ untagged_at_start = 0
    /\ preset_rules \in SeqsUpTo(PresetRuleKinds, MaxRules)
    /\ delete_filters = NO_FILTERS
    /\ delete_unused = FALSE
    /\ bak = [exists |-> FALSE, files |-> <<>>]
    /\ pending = None
    /\ prompts = <<>>
    /\ analysis_filters = NO_FILTERS
    /\ allow_untagged = FALSE
    /\ reported = None
    /\ df_schema = <<>>
    /\ expected_schema = <<>>
    /\ errors = None
    /\ edge_ticks = NO_EDGE_TICKS
    /\ external_filters = [NO_FILTERS EXCEPT !.invert = TRUE]
    /\ breakdown_filters = NO_FILTERS
    /\ anonymization = AnalysisAnonymization(FALSE)
    /\ loaded = <<>>
    /\ got = None

\* apply_tags(load_source_data(), preset_rules=config().tag.preset_rules)
ApplyTagsWithPresets ==
    /\ pc = "idle"
    /\ LET tagged == apply_tags_with_presets(source_data, tags_file, preset_rules)
       IN  /\ tags_file' = TouchTagsFile(tags_file)
           /\ source' = tagged
           /\ pc' = IF validate_schema(tagged, TAGGED_SCHEMA) THEN "tagged" ELSE "raised"
    /\ UNCHANGED <<config, enrichment, schema_call, analysis, deletion, tags, skipped_indices, index, guess, tag_input, result, accepted,
                   answered, untagged_at_start>>

PresetNext == ApplyTagsWithPresets

PresetSpec == PresetInit /\ [][PresetNext]_vars

(***************************************************************************)
(* run() of the tag command: the deletions the configuration asks for,     *)
(* each behind its prompt, then tag_interactively().  A Tag Store of       *)
(* earlier sessions is on file.                                            *)
(***************************************************************************)
MaxDeleteRows == 2

DeleteLedgers == {l \in Ledgers : Len(l) <= MaxDeleteRows}

\* Transactions of earlier ledgers.
FormerRows ==
    << Row(<<"a">>, <<"b", "c">>, 20240207, 5, <<"X">>),
       Row(<<"a">>, <<"b", "c">>, 20240301, 5, <<"Y">>) >>

\* The stores of the runs: no file yet, or the tags of the ledger, of former
\* transactions, or of both.
DeleteStores(ledger) ==
    {[exists |-> FALSE, lines |-> <<>>], StoreOfRows(ledger), StoreOfRows(FormerRows),
     StoreOfRows(ledger \o FormerRows)}

\* config().tag.delete_filters: unset, by tag, by description, and every
\* tag but one.
DeleteFilterChoices ==
    { NO_FILTERS,
      [NO_FILTERS EXCEPT !.tags = Some({<<"F">>})],
      [NO_FILTERS EXCEPT !.description = Some(<<"X">>)],
      [NO_FILTERS EXCEPT !.tags = Some({<<"F">>}), !.invert = TRUE] }

\* What the user types at "Delete tags? [y/N] ".
AnswerInputs == {<<"y">>, <<"Y", "E", "S">>, <<"n">>, <<>>, <<"y", "e">>}

DeleteInit ==
    /\ source_data \in DeleteLedgers
    /\ default_tags = None
    /\ tags_file \in DeleteStores(source_data)
    /\ source = <<>>
    /\ tags = <<>>
    /\ skipped_indices = {}
    /\ index = None
    /\ guess = None
    /\ tag_input = None
    /\ pc = "run"
    /\ result = ""
    /\ accepted = <<>>
    /\ answered = 0
    /\ untagged_at_start = 0
    /\ preset_rules = <<>>
    /\ delete_filters \in DeleteFilterChoices
    /\ delete_unused \in BOOLEAN
    /\ bak \in {[exists |-> FALSE, files |-> <<>>], [exists |-> TRUE, files |-> <<>>]}
    /\ pending = None
    /\ prompts = <<>>
    /\ analysis_filters = NO_FILTERS
    /\ allow_untagged = FALSE
    /\ reported = None
    /\ df_schema = <<>>
    /\ expected_schema = <<>>
    /\ errors = None
    /\ edge_ticks = NO_EDGE_TICKS
    /\ external_filters = [NO_FILTERS EXCEPT !.invert = TRUE]
    /\ breakdown_filters = NO_FILTERS
    /\ anonymization = AnalysisAnonymization(FALSE)
    /\ loaded = <<>>
    /\ got = None

\* run() from "if config().tag.delete_unused" on, with the Tag Store file
\* as it is then: up to the prompt of delete_unused_tags, or to the call of
\* tag_interactively().
UnusedStage(file) ==
    IF delete_unused
    THEN LET touched == TouchTagsFile(file)
             tag_hashes == unused_tag_hashes(source_data, touched)
         IN  IF tag_hashes = {}
             THEN [pc |-> "idle", pending |-> None, file |-> touched]
             ELSE [pc |-> "confirm", pending |-> Some(DeletePrompt("unused", touched, tag_hashes)),
                   file |-> touched]
    ELSE [pc |-> "idle", pending |-> None, file |-> file]

\* run() from its first line: up to the prompt of delete_filtered_tags, or on
\* to the next stage.
FilteredStage(file) ==
    IF Filters_has_effect(delete_filters)
    THEN LET touched == TouchTagsFile(file)
             tag_hashes == filtered_tag_hashes(source_data, touched, delete_filters)
         IN  IF tag_hashes = {}
             THEN UnusedStage(touched)
             ELSE [pc |-> "confirm", pending |-> Some(DeletePrompt("filtered", touched, tag_hashes)),
                   file |-> touched]
    ELSE UnusedStage(file)

\* What follows the return of _delete_tags.
NextStage(kind, file) ==
    IF kind = "filtered" THEN UnusedStage(file) ELSE [pc |-> "idle", pending |-> None, file |-> file]

\* The record of an answered prompt.
Answered(answer, after, bak_after, raised) ==
    [kind |-> Val(pending).kind, tag_hashes |-> Val(pending).tag_hashes, answer |-> answer,
     before |-> tags_file, after |-> after, bak_before |-> bak, bak_after |-> bak_after,
     raised |-> raised]

\* run(): from the start to the first blocking read.
RunDeletions ==
    /\ pc = "run"
    /\ LET stage == FilteredStage(tags_file)
       IN  /\ pc' = stage.pc
           /\ pending' = stage.pending
           /\ tags_file' = stage.file
    /\ UNCHANGED <<config, enrichment, schema_call, analysis, bak, prompts, source, tags, skipped_indices, index, guess, tag_input,
                   result, accepted, answered, untagged_at_start>>

\* The prompt is answered with something else than y or yes: _delete_tags
\* returns and run() goes on.
DeclineDeletion ==
    /\ pc = "confirm"
    /\ \E answer \in AnswerInputs :
        /\ ~IsYes(answer)
        /\ LET stage == NextStage(Val(pending).kind, tags_file)
           IN  /\ pc' = stage.pc
               /\ pending' = stage.pending
               /\ tags_file' = stage.file
        /\ prompts' = Append(prompts, Answered(answer, tags_file, bak, FALSE))
    /\ UNCHANGED <<config, enrichment, schema_call, analysis, bak, source, tags, skipped_indices, index, guess, tag_input, result,
                   accepted, answered, untagged_at_start>>

\* The prompt is answered with y or yes: the backup, the write of the
\* remaining tags, and run() goes on; or the exception of the copy.
ConfirmDeletion ==
    /\ pc = "confirm"
    /\ \E answer \in AnswerInputs :
        /\ IsYes(answer)
        /\ IF tags_file.exists /\ copy2_raises(tags_file, bak)
           THEN /\ pc' = "raised"
                /\ pending' = None
                /\ UNCHANGED <<tags_file, bak>>
                /\ prompts' = Append(prompts, Answered(answer, tags_file, bak, TRUE))
           ELSE LET backed_up == IF tags_file.exists THEN copy2(tags_file, bak) ELSE bak
                    written == write_tags_file(Val(pending).remaining_tags, tags_file)
                    stage == NextStage(Val(pending).kind, written)
                IN  /\ bak' = backed_up
                    /\ pc' = stage.pc
                    /\ pending' = stage.pending
                    /\ tags_file' = stage.file
                    /\ prompts' = Append(prompts, Answered(answer, written, backed_up, FALSE))
    /\ UNCHANGED <<config, enrichment, schema_call, analysis, source, tags, skipped_indices, index, guess, tag_input, result,
                   accepted, answered, untagged_at_start>>

DeleteNext == RunDeletions \/ DeclineDeletion \/ ConfirmDeletion \/ Start

DeleteSpec == DeleteInit /\ [][DeleteNext]_vars

(***************************************************************************)
(* run() of the analysis: the source data is loaded, tagged, sorted and    *)
(* filtered, and its tags are checked unless allow_untagged is set.        *)
(***************************************************************************)
\* config().analysis.filters: unset, from a date on, by tag.
AnalysisFilterChoices ==
    { NO_FILTERS,
      [NO_FILTERS EXCEPT !.start_date = Some(20240207)],
      [NO_FILTERS EXCEPT !.tags = Some({<<"F">>})] }

\* config().tag.preset_rules of the analysed configurations.
AnalysisPresetChoices ==
    {<<>>, <<TagPresetRule(<<"n">>, <<"c">>, [NO_FILTERS EXCEPT !.start_date = Some(20240301)])>>}

AnalyzeInit ==
    /\ source_data \in Ledgers
    /\ default_tags = None
    /\ tags_file \in PresetStores(source_data)
    /\ source = <<>>
    /\ tags = <<>>
    /\ skipped_indices = {}
    /\ index = None
    /\ guess = None
    /\ tag_input = None
    /\ pc = "analyze"
    /\ result = ""
    /\ accepted = <<>>
    /\ answered = 0
    /\ untagged_at_start = 0
    /\ preset_rules \in AnalysisPresetChoices
    /\ delete_filters = NO_FILTERS
    /\ delete_unused = FALSE
    /\ bak = [exists |-> FALSE, files |-> <<>>]
    /\ pending = None
    /\ prompts = <<>>
    /\ analysis_filters \in AnalysisFilterChoices
    /\ allow_untagged \in BOOLEAN
    /\ reported = None
    /\ df_schema = <<>>
    /\ expected_schema = <<>>
    /\ errors = None
    /\ edge_ticks = NO_EDGE_TICKS
    /\ external_filters = [NO_FILTERS EXCEPT !.invert = TRUE]
    /\ breakdown_filters = NO_FILTERS
    /\ anonymization = AnalysisAnonymization(FALSE)
    /\ loaded = <<>>
    /\ got = None

\* run(): up to exit(1) in _validate_tags, or on to the tables ("analysed").
Analyze ==
    /\ pc = "analyze"
    /\ tags_file' = TouchTagsFile(tags_file)
    /\ \E data \in get_post_processed_source_data(source_data, tags_file, preset_rules, analysis_filters) :
        /\ source' = data
        /\ IF ~allow_untagged /\ Len(null_tags(data)) # 0
           THEN /\ reported' = Some(null_tags(data))
                /\ result' = "1"
                /\ pc' = "exited"
           ELSE /\ reported' = None
                /\ result' = result
                /\ pc' = "analysed"
    /\ UNCHANGED <<config, enrichment, schema_call, deletion, tags, skipped_indices, index, guess, tag_input, accepted,
                   answered, untagged_at_start>>

AnalyzeNext == Analyze

AnalyzeSpec == AnalyzeInit /\ [][AnalyzeNext]_vars

(***************************************************************************)
(* validate_schema as an operation of its own, on frames whose columns and *)
(* dtypes differ from the expected schema in every way.                    *)
(***************************************************************************)
\* The columns and dtypes of the frames of the calls.
SchemaColumns == {"tag", "subtag", "hash", "date"}
SchemaDtypes == {"String", "UInt64", "Date"}

\* The expected schemas of the calls: TAG_SCHEMA and a schema of two
\* columns.
ExpectedSchemas == {SchemaItems(TAG_SCHEMA), SchemaItems(<<"date", "tag">>)}

SchemaInit ==
    /\ source_data = <<>>
    /\ default_tags = None
    /\ tags_file = [exists |-> FALSE, lines |-> <<>>]
    /\ source = <<>>
    /\ tags = <<>>
    /\ skipped_indices = {}
    /\ index = None
    /\ guess = None
    /\ tag_input = None
    /\ pc = "validate"
    /\ result = ""
    /\ accepted = <<>>
    /\ answered = 0
    /\ untagged_at_start = 0
    /\ preset_rules = <<>>
    /\ delete_filters = NO_FILTERS
    /\ delete_unused = FALSE
    /\ bak = [exists |-> FALSE, files |-> <<>>]
    /\ pending = None
    /\ prompts = <<>>
    /\ analysis_filters = NO_FILTERS
    /\ allow_untagged = FALSE
    /\ reported = None
    /\ df_schema \in UNION {[columns -> SchemaDtypes] : columns \in SUBSET SchemaColumns}
    /\ expected_schema \in ExpectedSchemas
    /\ errors = None
    /\ edge_ticks = NO_EDGE_TICKS
    /\ external_filters = [NO_FILTERS EXCEPT !.invert = TRUE]
    /\ breakdown_filters = NO_FILTERS
    /\ anonymization = AnalysisAnonymization(FALSE)
    /\ loaded = <<>>
    /\ got = None

\* validate_schema(df, expected_schema): returns, or raises InvalidSchema.
ValidateSchema ==
    /\ pc = "validate"
    /\ errors' = Some(schema_errors(df_schema, expected_schema))
    /\ pc' = IF schema_errors(df_schema, expected_schema) # <<>> THEN "raised" ELSE "returned"
    /\ UNCHANGED <<config, enrichment, deletion, analysis, store, df_schema, expected_schema, skipped_indices,
                   index, guess, tag_input, result, accepted, answered, untagged_at_start>>

SchemaNext == ValidateSchema

SchemaSpec == SchemaInit /\ [][SchemaNext]_vars

(***************************************************************************)
(* _add_edge_ticks and _add_sentinel_ticks as operations of their own, on  *)
(* the tagged frame of a ledger of the enrichment under every setting of   *)
(* the edge ticks.                                                         *)
(***************************************************************************)
MaxEnrichRows == 2

\* load_source_data() over the transactions of the enrichment.
EnrichLedgers ==
    {l \in SeqsUpTo(EnrichUniverse, MaxEnrichRows) :
        \A i \in DOMAIN l : i < Len(l) =>
            \/ l[i].date < l[i + 1].date
            \/ l[i].date = l[i + 1].date /\ l[i].amount <= l[i + 1].amount}

\* pad_days of an edge tick: none, a few days, the default.
PadDaysChoices == {0, 3, 31}

\* An edge tick as configured: disabled (the default), or enabled with any
\* pad_days and cap_same_month.
EdgeTickChoices ==
    {EdgeTick(FALSE, 31, TRUE)}
        \cup {EdgeTick(TRUE, pad_days, cap) : pad_days \in PadDaysChoices, cap \in BOOLEAN}

TickInit ==
    /\ source_data \in EnrichLedgers
    /\ default_tags = None
    /\ \E file \in PresetStores(source_data) :
        /\ tags_file = TouchTagsFile(file)
        /\ source = apply_tags(source_data, file)
    /\ tags = <<>>
    /\ skipped_indices = {}
    /\ index = None
    /\ guess = None
    /\ tag_input = None
    /\ pc = "tagged"
    /\ result = ""
    /\ accepted = <<>>
    /\ answered = 0
    /\ untagged_at_start = 0
    /\ preset_rules = <<>>
    /\ delete_filters = NO_FILTERS
    /\ delete_unused = FALSE
    /\ bak = [exists |-> FALSE, files |-> <<>>]
    /\ pending = None
    /\ prompts = <<>>
    /\ analysis_filters = NO_FILTERS
    /\ allow_untagged = FALSE
    /\ reported = None
    /\ df_schema = <<>>
    /\ expected_schema = <<>>
    /\ errors = None
    /\ edge_ticks \in {AnalysisEdgeTicks(min, max) : min \in EdgeTickChoices, max \in EdgeTickChoices}
    /\ external_filters = [NO_FILTERS EXCEPT !.invert = TRUE]
    /\ breakdown_filters = NO_FILTERS
    /\ anonymization = AnalysisAnonymization(FALSE)
    /\ loaded = <<>>
    /\ got = None

\* source = _add_edge_ticks(source)
AddEdgeTicks ==
    /\ pc = "tagged"
    /\ IF add_edge_ticks_raises(source, edge_ticks)
       THEN pc' = "raised" /\ source' = source
       ELSE pc' = "edge" /\ source' = add_edge_ticks(source, edge_ticks)
    /\ UNCHANGED <<config, enrichment, schema_call, analysis, deletion, tags_file, tags, skipped_indices, index, guess,
                   tag_input, result, accepted, answered, untagged_at_start>>

\* source = _add_sentinel_ticks(source)
AddSentinelTicks ==
    /\ pc = "edge"
    /\ IF add_sentinel_ticks_raises(source)
       THEN pc' = "raised" /\ source' = source
       ELSE pc' = "sentinel" /\ source' = add_sentinel_ticks(source)
    /\ UNCHANGED <<config, enrichment, schema_call, analysis, deletion, tags_file, tags, skipped_indices, index, guess,
                   tag_input, result, accepted, answered, untagged_at_start>>

TickNext == AddEdgeTicks \/ AddSentinelTicks

TickSpec == TickInit /\ [][TickNext]_vars

(***************************************************************************)
(* SourceData.load() and SourceData.get(): the enrichment of a ledger      *)
(* under the configuration of the analysis, run up to twice on the same    *)
(* files, and the views the analysis takes of the loaded table.            *)
(***************************************************************************)
\* config().analysis.edge_ticks: the default, or both edge ticks enabled.
EnrichEdgeTickChoices ==
    {NO_EDGE_TICKS, AnalysisEdgeTicks(EdgeTick(TRUE, 31, TRUE), EdgeTick(TRUE, 31, TRUE))}

\* config().analysis.external_filters: the default, by tag.
ExternalFilterChoices ==
    { [NO_FILTERS EXCEPT !.invert = TRUE],
      [NO_FILTERS EXCEPT !.tags = Some({<<"F">>})] }

\* config().analysis.breakdown_filters: the default, by tag.
BreakdownFilterChoices == {NO_FILTERS, [NO_FILTERS EXCEPT !.tags = Some({<<"D">>})]}

\* config().analysis.filters: the default, from a date on.
EnrichFilterChoices == {NO_FILTERS, [NO_FILTERS EXCEPT !.start_date = Some(20240131)]}

\* The ledgers of the loads: the transactions of January.
LoadLedgers == {l \in EnrichLedgers : \A i \in DOMAIN l : Month(l[i].date) = 1}

\* The Tag Store of a load: the first transaction tagged, or every one.
LoadStores(ledger) ==
    {StoreOfRows(IF ledger = <<>> THEN <<>> ELSE <<ledger[1]>>), StoreOfRows(ledger)}

\* SourceData.get() with the keyword arguments of the set passed as True.
GetCall(passed) == [name \in DOMAIN NO_GET_ARGUMENTS |-> name \in passed]

\* The calls of SourceData.get: those of the tables of the analysis
\* (analysis/tables.py), and calls that ask for the generated ticks.
GetCalls ==
    {GetCall(passed) :
        passed \in {{}, {"include_external"}, {"breakdown"}, {"breakdown", "incomes"},
                    {"breakdown", "expenses"}, {"sentinels"}, {"edge_ticks"},
                    {"include_external", "sentinels", "edge_ticks", "round"}}}

EnrichInit ==
    /\ source_data \in LoadLedgers
    /\ default_tags = None
    /\ tags_file \in LoadStores(source_data)
    /\ source = <<>>
    /\ tags = <<>>
    /\ skipped_indices = {}
    /\ index = None
    /\ guess = None
    /\ tag_input = None
    /\ pc = "load"
    /\ result = ""
    /\ accepted = <<>>
    /\ answered = 0
    /\ untagged_at_start = 0
    /\ preset_rules = <<>>
    /\ delete_filters = NO_FILTERS
    /\ delete_unused = FALSE
    /\ bak = [exists |-> FALSE, files |-> <<>>]
    /\ pending = None
    /\ prompts = <<>>
    /\ analysis_filters \in EnrichFilterChoices
    /\ allow_untagged = FALSE
    /\ reported = None
    /\ df_schema = <<>>
    /\ expected_schema = <<>>
    /\ errors = None
    /\ edge_ticks \in EnrichEdgeTickChoices
    /\ external_filters \in ExternalFilterChoices
    /\ breakdown_filters \in BreakdownFilterChoices
    /\ anonymization \in {AnalysisAnonymization(enable) : enable \in BOOLEAN}
    /\ loaded = <<>>
    /\ got = None

\* config().analysis as the enrichment reads it.
EnrichConfig ==
    AnalysisConfig(edge_ticks, external_filters, breakdown_filters, analysis_filters, anonymization)

\* SourceData.load(): source keeps the table as it is when the analysis
\* filters are applied to it.
Load ==
    /\ pc \in {"load", "loaded"}
    /\ Len(loaded) < 2
    /\ got = None
    /\ tags_file' = TouchTagsFile(tags_file)
    /\ got' = None
    /\ IF add_sentinel_ticks_raises(source_data)
       THEN pc' = "raised" /\ UNCHANGED <<source, loaded>>
       ELSE \E balanced \in balanced_source_data(source_data, tags_file, preset_rules, EnrichConfig),
               scale \in ScaleChoices :
                LET table == post_process(balanced, EnrichConfig, scale)
                IN  /\ source' = balanced
                    /\ loaded' = Append(loaded, table)
                    /\ pc' = IF validate_schema(table, ENRICHED_SCHEMA) THEN "loaded" ELSE "raised"
    /\ UNCHANGED <<config, schema_call, analysis, deletion, tags, skipped_indices, index, guess,
                   tag_input, result, accepted, answered, untagged_at_start>>

\* SourceData.get(**args) on the table of the first load, with
\* config().analysis.net_by_tag as it is read by the call.
Get ==
    /\ pc = "loaded"
    /\ Len(loaded) = 1
    /\ got = None
    /\ \E args \in GetCalls, net_by_tag \in BOOLEAN :
        got' = Some([args |-> args, net_by_tag |-> net_by_tag,
                     df |-> SourceData_get(loaded[1], args, net_by_tag)])
    /\ UNCHANGED <<config, schema_call, analysis, deletion, store, loaded, skipped_indices, index,
                   guess, tag_input, pc, result, accepted, answered, untagged_at_start>>

EnrichNext == Load \/ Get

EnrichSpec == EnrichInit /\ [][EnrichNext]_vars

(***************************************************************************)
(* Properties.                                                             *)
(***************************************************************************)
InLoop == pc \in {"prompt", "input_tag", "input_subtag"}
HasTagger == InLoop \/ pc = "done"

AcceptedHashes == Hashes(accepted)
SameKey(a, b) == RawRow(a) = RawRow(b)

\* The entry the last call of Tagger.apply_tags was made with.
LastEntry == [tag |-> accepted[1].tag, subtag |-> accepted[1].subtag, hash |-> accepted[1].hash]

\* C1: after any sequence of calls of Tagger.apply_tags the Tag Store holds
\* no two entries of one fingerprint, in memory and on file alike; and each
\* call leaves exactly one entry for the fingerprint of its row, carrying the
\* new tag pair in place of any previous entry, and leaves the entry of every
\* other fingerprint as it was.
C1_UpsertKeyedByFingerprint ==
    /\ [](pc = "tagger" => (UniqueHashes(tags) /\ tags = FileTable))
    /\ [][pc = "tagger" =>
            LET h == accepted'[1].hash
            IN  /\ CountOf(tags', h) = 1
                /\ EntriesOf(tags', h) =
                       {[tag |-> accepted'[1].tag, subtag |-> accepted'[1].subtag, hash |-> h]}
                /\ \A g \in (Hashes(tags) \cup Hashes(tags')) \ {h} :
                       /\ CountOf(tags', g) = CountOf(tags, g)
                       /\ EntriesOf(tags', g) = EntriesOf(tags, g)]_vars

\* C1 witness: the last call replaced a stored entry of its fingerprint by
\* another tag pair while the store held an entry of another fingerprint.
C1_Witness ==
    /\ pc = "tagger"
    /\ Len(accepted) = 1
    /\ Len(tags) >= 2
    /\ accepted[1].previous # {}
    /\ LastEntry \notin accepted[1].previous

\* C2: at every prompt, at every other read of user input (where the loop
\* blocks and an interrupt can end the process) and after the loop has
\* returned, the Tag Store file exists and holds the entry of every tag
\* accepted so far in the session.
C2_AcceptedIsPersisted ==
    HasTagger =>
        /\ tags_file.exists
        /\ \A k \in DOMAIN accepted :
               [tag |-> accepted[k].tag, subtag |-> accepted[k].subtag, hash |-> accepted[k].hash]
                   \in {FileTable[j] : j \in DOMAIN FileTable}

\* C2 witness: a prompt is shown after two tags were accepted.
C2_Witness == pc = "prompt" /\ Len(accepted) >= 2

\* C3: within a session no fingerprint is upserted twice, and no row whose
\* fingerprint was upserted is presented again.
C3_AtMostOncePerFingerprint ==
    /\ \A j, k \in DOMAIN accepted : j # k => accepted[j].hash # accepted[k].hash
    /\ InLoop => get_row(source, Val(index)).hash \notin AcceptedHashes

\* C3 witness: a later row is presented after a tag was accepted for a
\* fingerprint that two rows of the ledger share.
C3_Witness ==
    /\ pc = "prompt"
    /\ Len(accepted) >= 1
    /\ \E i, j \in RowIndices :
        /\ i < j
        /\ j < Val(index)
        /\ get_row(source, i).hash = accepted[1].hash
        /\ get_row(source, j).hash = accepted[1].hash

\* C4: two ledger rows equal in all five fields carry the same fingerprint
\* and show the same tag pair in the joined view, which is the accepted pair
\* once Tagger.apply_tags tagged one of them.
C4_EqualRowsShareTags ==
    HasTagger =>
        /\ \A i, j \in RowIndices :
               SameKey(get_row(source, i), get_row(source, j)) =>
                   /\ get_row(source, i).hash = get_row(source, j).hash
                   /\ get_row(source, i).tag = get_row(source, j).tag
                   /\ get_row(source, i).subtag = get_row(source, j).subtag
        /\ \A k \in DOMAIN accepted : \A i \in RowIndices :
               SameKey(get_row(source, i), get_row(source, accepted[k].index)) =>
                   /\ get_row(source, i).tag = accepted[k].tag
                   /\ get_row(source, i).subtag = accepted[k].subtag

\* C4 witness: the ledger holds one transaction twice and a tag was accepted
\* for one of the two rows.
C4_Witness ==
    /\ HasTagger
    /\ \E k \in DOMAIN accepted : \E i \in RowIndices :
        /\ i # accepted[k].index
        /\ SameKey(get_row(source, i), get_row(source, accepted[k].index))

\* C5: two transactions of the ledger that differ in one of the five fields
\* never give the same concatenated string.
C5_ConcatUnambiguous ==
    \A i, j \in DOMAIN source_data :
        ~SameKey(source_data[i], source_data[j]) =>
            concat_str(source_data[i]) # concat_str(source_data[j])

\* C6: once Tagger.apply_tags was called with a row and a tag pair, on any
\* store, calling it again with the same row and pair leaves the in-memory
\* table and the Tag Store file as the first call left them.
C6_UpsertIdempotent ==
    (pc = "tagger" /\ Len(accepted) = 1) =>
        LET twice == Tagger_apply_tags(TaggerState, accepted[1].index,
                                       Tags(accepted[1].tag, accepted[1].subtag))
        IN  /\ twice.tags = tags
            /\ twice.file = tags_file

\* C6 witness: the first of the two calls replaced another tag pair stored
\* for the fingerprint, beside an entry of another fingerprint.
C6_Witness ==
    /\ pc = "tagger"
    /\ Len(accepted) = 1
    /\ Len(tags) >= 2
    /\ \E e \in accepted[1].previous : e.tag # accepted[1].tag

\* C7: get_untagged_index(ignore_indices) is None exactly when every row
\* with a null tag is in ignore_indices, and is otherwise the smallest index
\* of a row with a null tag outside ignore_indices.
C7_SmallestUntaggedIndex ==
    HasTagger =>
        \A ignore_indices \in SUBSET (0..(MaxRows - 1)) :
            LET candidates == {i \in RowIndices :
                                  IsNull(get_row(source, i).tag) /\ i \notin ignore_indices}
                found == get_untagged_index(source, ignore_indices)
            IN  /\ IsNull(found) <=> candidates = {}
                /\ candidates # {} =>
                       /\ Val(found) \in candidates
                       /\ \A i \in candidates : Val(found) <= i

\* C7 witness: the row at the prompt follows a skipped row whose tag is
\* still null.
C7_Witness ==
    /\ pc = "prompt"
    /\ \E i \in skipped_indices : i < Val(index) /\ IsNull(get_row(source, i).tag)

\* C8: skip, list-all-tags, quit, an unrecognised key and a cancelled manual
\* entry leave the Tag Store file, the in-memory table and the joined view
\* unchanged; inside the loop only an accepted guess or a completed manual
\* entry changes them.
C8_FrameOfInputs ==
    [][/\ (KeySkip \/ KeyShowTags \/ KeyQuit \/ KeyOther \/ InputTagCancel \/ InputSubtagCancel)
            => UNCHANGED store
       /\ (InLoop /\ ~UNCHANGED store) => (KeyGuess \/ InputSubtag)]_vars

\* C8 witness: a prompt is shown after a skip while the store holds an
\* entry, so that a skip has acted on a store with content.
C8_Witness ==
    /\ pc = "prompt"
    /\ skipped_indices # {}
    /\ Len(tags) >= 1
    /\ tags_file.lines # <<>>

\* C9: the loop has returned only after quit or when no untagged,
\* non-skipped row is left; while it runs such a row is the one presented;
\* it never raises; and the prompts answered with skip, accept-guess or a
\* completed manual entry, the one on screen included, are at most as many as
\* the untagged rows at the start.
C9_LoopEnds ==
    /\ pc = "done" => (result = "True" \/ IsNull(get_untagged_index(source, skipped_indices)))
    /\ InLoop => (~IsNull(index) /\ index = get_untagged_index(source, skipped_indices))
    /\ pc # "raised"
    /\ HasTagger => answered + (IF InLoop THEN 1 ELSE 0) <= untagged_at_start

\* C9 witness: the loop returned on its own after as many answers as there
\* were untagged rows, some of them skips and some accepted tags.
C9_Witness ==
    /\ pc = "done"
    /\ result = "None"
    /\ untagged_at_start >= 2
    /\ answered = untagged_at_start
    /\ skipped_indices # {}
    /\ Len(accepted) >= 1

\* The tagged rows whose description equals that of row i.
TaggedWithDescriptionOf(i) ==
    {j \in RowIndices :
        /\ ~IsNull(get_row(source, j).tag)
        /\ get_row(source, j).description = get_row(source, i).description}

\* C10: when a tagged row has the description of row index, every result of
\* guess_tags(index) is the tag pair of such a row of the latest date among
\* them, with and without default tags.
C10_GuessMostRecentMatch ==
    pc = "prompt" =>
        \A i \in RowIndices, d \in DefaultTagsChoices :
            TaggedWithDescriptionOf(i) # {} =>
                \A g \in Guesses(source, i, d) :
                    \E j \in TaggedWithDescriptionOf(i) :
                        /\ g = Tags(get_row(source, j).tag, get_row(source, j).subtag)
                        /\ \A k \in TaggedWithDescriptionOf(i) :
                               get_row(source, k).date <= get_row(source, j).date

\* C10 witness: with default tags configured, the prompt shows as guess the
\* tag pair of the later of two tagged rows that have the description of the
\* presented row, differ in date and differ in tag pair.
C10_Witness ==
    /\ pc = "prompt"
    /\ ~IsNull(default_tags)
    /\ \E j, k \in TaggedWithDescriptionOf(Val(index)) :
        /\ get_row(source, j).date < get_row(source, k).date
        /\ Tags(get_row(source, j).tag, get_row(source, j).subtag)
               # Tags(get_row(source, k).tag, get_row(source, k).subtag)
        /\ guess = Some(Tags(get_row(source, k).tag, get_row(source, k).subtag))

\* The tag pairs of the tagged rows and the distinct descriptions tagged
\* with a pair.
TaggedPairs == {Tags(source[i].tag, source[i].subtag) : i \in {j \in DOMAIN source : ~IsNull(source[j].tag)}}
DescriptionsOf(p) ==
    {source[i].description :
        i \in {j \in DOMAIN source : ~IsNull(source[j].tag) /\ Tags(source[j].tag, source[j].subtag) = p}}

\* C11: when no tagged row has the description of row index, guess_tags(index)
\* is the configured default tag pair if there is one; otherwise a tag pair
\* of the tagged rows whose number of distinct descriptions is the largest
\* among all tag pairs; otherwise, no row being tagged, ("unknown", "").
C11_GuessFallback ==
    (~IsNull(index) /\ TaggedWithDescriptionOf(Val(index)) = {}) =>
        IF ~IsNull(default_tags) THEN guess = default_tags
        ELSE IF TaggedPairs = {} THEN guess = Some(UNKNOWN_TAGS)
        ELSE /\ Val(guess) \in TaggedPairs
             /\ \A p \in TaggedPairs :
                    Cardinality(DescriptionsOf(p)) <= Cardinality(DescriptionsOf(Val(guess)))

\* C11 witness: without a default, the guess for a row whose description no
\* tagged row has is the pair with two descriptions, while the pair met
\* first in the scan has one.
C11_Witness ==
    /\ ~IsNull(index)
    /\ IsNull(default_tags)
    /\ TaggedWithDescriptionOf(Val(index)) = {}
    /\ \E p \in TaggedPairs :
        /\ p # Val(guess)
        /\ Cardinality(DescriptionsOf(p)) = 1
        /\ Cardinality(DescriptionsOf(Val(guess))) = 2
        /\ Tags(source[Len(source)].tag, source[Len(source)].subtag) = p

\* C12: in the result of apply_tags with preset rules, a transaction whose
\* fingerprint has an entry in the Tag Store carries the stored tag and
\* subtag, whatever the preset rules match.
C12_PresetsKeepStoredTags ==
    pc = "tagged" =>
        \A i \in DOMAIN source :
            \A k \in DOMAIN FileTable :
                FileTable[k].hash = source[i].hash =>
                    /\ source[i].tag = FileTable[k].tag
                    /\ source[i].subtag = FileTable[k].subtag

\* The positions (1-based) of the effective preset rules that match row.
MatchingRules(row) ==
    {k \in DOMAIN preset_rules :
        LET filters == WithoutTagFilters(preset_rules[k].filters)
        IN  Filters_has_effect(filters) /\ Filters_predicate(filters, row) = "T"}

\* The first position in a non-empty set of positions.
FirstOf(S) == CHOOSE k \in S : \A j \in S : k <= j

\* Distinct transactions of the ledger have distinct fingerprints.
FingerprintsDistinguish(ledger) ==
    \A i, j \in DOMAIN ledger : RowHash[ledger[i]] = RowHash[ledger[j]] => ledger[i] = ledger[j]

EntryFor(table, h) ==
    IF \E k \in DOMAIN table : table[k].hash = h
    THEN Some(table[CHOOSE k \in DOMAIN table : table[k].hash = h])
    ELSE None

\* The fingerprints of the transactions of the ledger that match the delete
\* filters when each carries the tag and subtag the table gives it.
MatchedFingerprints(table) ==
    {RowHash[source_data[i]] : i \in {j \in DOMAIN source_data :
        LET h == RowHash[source_data[j]]
            entry == EntryFor(table, h)
            joined == TaggedRow(HashedRow(source_data[j], h),
                                IF IsNull(entry) THEN None ELSE Val(entry).tag,
                                IF IsNull(entry) THEN None ELSE Val(entry).subtag)
        IN  Filters_predicate(delete_filters, joined) = "T"}}

\* The answered prompts of a kind whose deletion was confirmed and carried
\* out.
Completed(kind) ==
    {k \in DOMAIN prompts : prompts[k].kind = kind /\ IsYes(prompts[k].answer) /\ ~prompts[k].raised}

\* C14: a confirmed delete_filtered_tags that has completed leaves in the Tag
\* Store exactly the entries it held before whose fingerprint belongs to no
\* transaction of the ledger matching the delete filters on the joined rows,
\* each with its tag and subtag as before.
C14_FilteredDeleteExact ==
    \A k \in Completed("filtered") :
        LET before == read_csv(prompts[k].before.lines)
            after == read_csv(prompts[k].after.lines)
        IN  /\ prompts[k].after.exists
            /\ after = SelectSeq(before, LAMBDA entry : entry.hash \notin MatchedFingerprints(before))

\* C14 witness: a confirmed delete_filtered_tags has removed an entry and
\* left another one in the store.
C14_Witness ==
    \E k \in Completed("filtered") :
        /\ prompts[k].after.lines # <<>>
        /\ Len(prompts[k].after.lines) < Len(prompts[k].before.lines)

\* C15: every confirmed deletion that matched at least one fingerprint has
\* copied the previous Tag Store file into bak and then written the file
\* anew, whether or not the directory bak existed before.
C15_BackupBeforeOverwrite ==
    \A k \in DOMAIN prompts :
        (IsYes(prompts[k].answer) /\ prompts[k].tag_hashes # {}) =>
            /\ ~prompts[k].raised
            /\ prompts[k].bak_after.exists
            /\ prompts[k].bak_after.files = Append(prompts[k].bak_before.files, prompts[k].before.lines)
            /\ prompts[k].after.lines
                   = write_csv(SelectSeq(read_csv(prompts[k].before.lines),
                                         LAMBDA entry : entry.hash \notin prompts[k].tag_hashes))

\* The spellings of "y" and "yes" in either case.
YesSpellings ==
    {<<y>> : y \in {"y", "Y"}}
        \cup {<<y, e, s>> : y \in {"y", "Y"}, e \in {"e", "E"}, s \in {"s", "S"}}

\* C16: an answer other than y or yes, in either case, leaves the Tag Store
\* file as it is, creates no backup and raises nothing, and the run goes on:
\* to the next prompt or into tag_interactively(); the run raises in a
\* deletion only when the last answer was y or yes.
C16_DeclineIsNoOp ==
    /\ \A k \in DOMAIN prompts :
           prompts[k].answer \notin YesSpellings =>
               /\ prompts[k].after = prompts[k].before
               /\ prompts[k].bak_after = prompts[k].bak_before
               /\ ~prompts[k].raised
    /\ (prompts # <<>> /\ prompts[Len(prompts)].answer \notin YesSpellings) =>
           pc \in {"confirm", "idle", "prompt", "done"}

\* C16 witness: both prompts of a run were declined, one of them with a
\* near miss of yes, the store holds entries, and tag_interactively() has
\* started.
C16_Witness ==
    /\ Len(prompts) = 2
    /\ \A k \in DOMAIN prompts : prompts[k].answer \notin YesSpellings
    /\ \E k \in DOMAIN prompts : prompts[k].answer = <<"y", "e">>
    /\ tags_file.lines # <<>>
    /\ pc \in {"prompt", "done"}

\* The fingerprints of the transactions of the ledger.
LedgerFingerprints == {RowHash[source_data[i]] : i \in DOMAIN source_data}

\* C17: a confirmed delete_unused_tags that has completed leaves in the Tag
\* Store exactly the entries it held before whose fingerprint occurs in the
\* ledger, unchanged; its prompt is shown only when some entry is unused;
\* and when it is not shown the file is the one the previous stage left.
C17_UnusedDeleteExact ==
    /\ \A k \in Completed("unused") :
           read_csv(prompts[k].after.lines)
               = SelectSeq(read_csv(prompts[k].before.lines),
                           LAMBDA entry : entry.hash \in LedgerFingerprints)
    /\ \A k \in DOMAIN prompts :
           prompts[k].kind = "unused" =>
               \E j \in DOMAIN prompts[k].before.lines :
                   read_csv(prompts[k].before.lines)[j].hash \notin LedgerFingerprints
    /\ (pc = "confirm" /\ Val(pending).kind = "unused") => ~(Hashes(FileTable) \subseteq LedgerFingerprints)
    /\ (pc = "idle" /\ delete_unused /\ \A k \in DOMAIN prompts : prompts[k].kind # "unused") =>
           /\ Hashes(FileTable) \subseteq LedgerFingerprints
           /\ prompts # <<>> => tags_file = prompts[Len(prompts)].after

\* C17 witness: a confirmed delete_unused_tags has removed the entries of
\* former transactions and kept those of the ledger.
C17_Witness ==
    \E k \in Completed("unused") :
        /\ prompts[k].after.lines # <<>>
        /\ Len(prompts[k].after.lines) + 2 = Len(prompts[k].before.lines)
        /\ pc = "idle"

\* The joined view with other values in the columns tag, subtag and hash.
StaleView ==
    [i \in DOMAIN source |->
        [source[i] EXCEPT !.tag = Some(<<"k">>), !.subtag = None, !.hash = (source[i].hash + 1) % HashModulus]]

\* C18: the result of apply_tags without preset rules holds every input
\* transaction once, in the order of the input, with its fingerprint, and
\* with the tag and subtag of the Tag Store entry of its fingerprint, or with
\* null tag and null subtag when the store has none; the columns tag, subtag
\* and hash of the input have no influence on the result.
C18_LeftJoinOnFingerprint ==
    pc = "tagger" =>
        /\ \A view \in {apply_tags(StaleView, tags_file)} :
               /\ Len(view) = Len(source)
               /\ \A i \in DOMAIN view :
                      /\ RawRow(view[i]) = RawRow(source[i])
                      /\ view[i].hash = RowHash[RawRow(source[i])]
                      /\ \A k \in DOMAIN FileTable :
                             FileTable[k].hash = view[i].hash =>
                                 (view[i].tag = FileTable[k].tag /\ view[i].subtag = FileTable[k].subtag)
                      /\ view[i].hash \notin Hashes(FileTable) =>
                             (IsNull(view[i].tag) /\ IsNull(view[i].subtag))
               /\ view = source
        /\ Len(source) = Len(source_data)
        /\ \A row \in Range(source_data) :
               Cardinality({i \in DOMAIN source : RawRow(source[i]) = row})
                   = Cardinality({i \in DOMAIN source_data : source_data[i] = row})

\* C18 witness: the view was joined anew from a view that had tag columns,
\* and holds a transaction with a stored tag and one without.
C18_Witness ==
    /\ pc = "tagger"
    /\ accepted # <<>>
    /\ \E i, j \in DOMAIN source :
        /\ ~IsNull(source[i].tag)
        /\ IsNull(source[j].tag)
        /\ source[j].hash \notin Hashes(FileTable)

\* The joined ledger of the analysis: the transactions with their stored
\* or preset tags, before the analysis filters.
JoinedLedger == apply_tags_with_presets(source_data, tags_file, preset_rules)

ExpectedDtype(column) ==
    expected_schema[CHOOSE i \in DOMAIN expected_schema : expected_schema[i].column = column].dtype

\* The columns the call finds missing, extra and of another dtype.
MissingColumns == SchemaKeys(expected_schema) \ DOMAIN df_schema
ExtraColumns == DOMAIN df_schema \ SchemaKeys(expected_schema)
MistypedColumns ==
    {column \in SchemaKeys(expected_schema) \cap DOMAIN df_schema : df_schema[column] # ExpectedDtype(column)}

\* C20: validate_schema raises InvalidSchema exactly when the column names
\* of df differ from the expected ones or an expected column has another
\* dtype in df; the error then names every missing column, every extra
\* column and every column of another dtype with both dtypes, and no other;
\* the call leaves the schema of df as it was.
C20_ValidateSchema ==
    /\ [](pc \in {"raised", "returned"} =>
            /\ pc = "raised" <=>
                   (DOMAIN df_schema # SchemaKeys(expected_schema) \/ MistypedColumns # {})
            /\ UNION {e.columns : e \in {x \in Range(Val(errors)) : x.kind = "Missing columns"}}
                   = MissingColumns
            /\ {e.column : e \in {x \in Range(Val(errors)) : x.kind = "Missing column"}} = MissingColumns
            /\ UNION {e.columns : e \in {x \in Range(Val(errors)) : x.kind = "Extra columns"}}
                   = ExtraColumns
            /\ {<<e.column, e.dtype, e.expected>> : e \in {x \in Range(Val(errors)) : x.kind = "Column"}}
                   = {<<column, df_schema[column], ExpectedDtype(column)>> : column \in MistypedColumns})
    /\ [][pc = "validate" => UNCHANGED <<df_schema, expected_schema>>]_vars

\* C20 witness: the call raised for a frame with a missing column, an extra
\* column and a column of another dtype at once.
C20_Witness ==
    /\ pc = "raised"
    /\ MissingColumns # {}
    /\ ExtraColumns # {}
    /\ MistypedColumns # {}
    /\ Len(Val(errors)) >= 4

\* The frame _add_edge_ticks was given, the (account, source) pairs of its
\* rows, and the rows it added for the minimum and for the maximum date.
LedgerRows == SelectSeq(source, LAMBDA row : ~row.is_edge_tick)
AccountSources == {<<LedgerRows[i].account, LedgerRows[i].source>> : i \in DOMAIN LedgerRows}
MinEdgeTicks ==
    IF edge_ticks.min.enable
    THEN SubSeq(source, Len(LedgerRows) + 1, Len(LedgerRows) + Cardinality(AccountSources))
    ELSE <<>>
MaxEdgeTicks == SubSeq(source, Len(LedgerRows) + Len(MinEdgeTicks) + 1, Len(source))

\* ticks holds one zero-amount edge tick for each (account, source) pair,
\* all of them at the date d.
OneTickPerAccountSource(ticks, d) ==
    /\ Len(ticks) = Cardinality(AccountSources)
    /\ {<<ticks[i].account, ticks[i].source>> : i \in DOMAIN ticks} = AccountSources
    /\ \A i \in DOMAIN ticks : ticks[i].is_edge_tick /\ ticks[i].amount = 0 /\ ticks[i].date = d

SameMonth(d, e) == Year(d) = Year(e) /\ Month(d) = Month(e)

SentinelInput == SelectSeq(source, LAMBDA row : ~row.is_sentinel_tick)
SentinelTicks == SubSeq(source, Len(SentinelInput) + 1, Len(source))

\* The first days of the calendar months from the month of min_date through
\* the month of max_date.
FirstDaysBetween(min_date, max_date) ==
    {d \in {Date(year, month, 1) : year \in Year(min_date)..Year(max_date), month \in 1..12} :
        replace_day(min_date, 1) <= d /\ d <= replace_day(max_date, 1)}

\* The combination a sentinel tick stands for.
CombinationOf(row) == <<row.tag, row.subtag, row.account, row.source, row.date>>

\* C27: _add_sentinel_ticks adds exactly one zero-amount sentinel row for
\* every combination of a (tag, subtag) pair, an account, a source of the
\* data and a calendar month from the month of the minimum date through the
\* month of the maximum date, and no other row; _months_in_range(min, max)
\* returns the first days of exactly those months, each once, ascending.
C27_SentinelTicks ==
    /\ (pc = "edge" /\ source # <<>>) =>
        months_in_range(MinDate(source), MaxDate(source))
            = sorted(FirstDaysBetween(MinDate(source), MaxDate(source)))
    /\ pc = "sentinel" =>
        LET df == SentinelInput
            combinations ==
                {<<df[p].tag, df[p].subtag, df[a].account, df[s].source, month>> :
                    p \in DOMAIN df, a \in DOMAIN df, s \in DOMAIN df,
                    month \in FirstDaysBetween(MinDate(df), MaxDate(df))}
        IN  /\ \A i \in DOMAIN SentinelTicks :
                /\ SentinelTicks[i].is_sentinel_tick
                /\ SentinelTicks[i].amount = 0
                /\ CombinationOf(SentinelTicks[i]) \in combinations
            /\ \A c \in combinations :
                Cardinality({i \in DOMAIN SentinelTicks : CombinationOf(SentinelTicks[i]) = c}) = 1

\* C27 witness: sentinel ticks were added to a frame holding untagged rows,
\* tagged rows and edge ticks of two accounts and two sources, whose dates
\* run from December of one year into the next year.
C27_Witness ==
    /\ pc = "sentinel"
    /\ \E i \in DOMAIN SentinelTicks : Year(SentinelTicks[i].date) = 2023 /\ Month(SentinelTicks[i].date) = 12
    /\ \E i \in DOMAIN SentinelTicks : Year(SentinelTicks[i].date) = 2024 /\ Month(SentinelTicks[i].date) >= 2
    /\ \E i \in DOMAIN SentinelTicks : IsNull(SentinelTicks[i].tag)
    /\ \E i \in DOMAIN SentinelTicks : SentinelTicks[i].tag = Some(EDGE_TICK_TAG)
    /\ Cardinality({SentinelTicks[i].account : i \in DOMAIN SentinelTicks}) = 2
    /\ Cardinality({SentinelTicks[i].source : i \in DOMAIN SentinelTicks}) = 2
    /\ Cardinality({<<SentinelTicks[i].tag, SentinelTicks[i].subtag>> : i \in DOMAIN SentinelTicks}) = 3

\* The state right after a load that passed: source holds the table as it
\* is before the analysis filters are applied.
JustLoaded == pc = "loaded" /\ got = None

\* Whether two rows lie in the same partition by the columns over.
SamePartition(a, b, over) == \A c \in over : a[c] = b[c]

\* Whether no row of df sorts strictly before the row that precedes it.
SortedOn(df, by) == \A i \in DOMAIN df : i < Len(df) => ~RowLess(df[i + 1], df[i], by)

\* Whether the column of df holds, at every row, the sum of amount over the
\* rows at or before it that lie in its partition; then the column holds, at
\* the last row of a partition, the sum of amount over the partition, and at
\* any row the amount of the row added to the value at the row of the
\* partition before it.
BalanceOver(df, column, over) ==
    \A i \in DOMAIN df :
        LET mates(rows) == SelectSeq(rows, LAMBDA row : SamePartition(row, df[i], over))
            before == {j \in 1..(i - 1) : SamePartition(df[j], df[i], over)}
            last == CHOOSE j \in before : \A k \in before : k <= j
        IN  /\ df[i][column] = SumAmounts(mates(SubSeq(df, 1, i)))
            /\ df[i][column] = df[i].amount + (IF before = {} THEN 0 ELSE df[last][column])
            /\ (\A j \in DOMAIN df : j > i => ~SamePartition(df[j], df[i], over))
                   => df[i][column] = SumAmounts(mates(df))

\* C21: in the table of get_post_processed_source_data before the analysis
\* filters are applied, the rows are in the canonical sort order (date, tag,
\* subtag, amount, description, hash), and balance_total,
\* balance_inexternal, balance_account and balance_source of a row are the
\* sum of amount over the rows at or before it that lie in the same
\* partition (all rows, same is_external, same account, same account and
\* source); at the last row of a partition the value is the sum of amount
\* over the partition.
C21_Balances ==
    JustLoaded =>
        /\ SortedOn(source, SORT_ORDER)
        /\ BalanceOver(source, "balance_total", {})
        /\ BalanceOver(source, "balance_inexternal", {"is_external"})
        /\ BalanceOver(source, "balance_account", {"account"})
        /\ BalanceOver(source, "balance_source", {"account", "source"})

\* A load whose table has a transaction of the ledger at which the four
\* balances are not all alike: the account holds two sources, and rows on
\* both sides of the external filter come before it.
C21_Witness ==
    /\ JustLoaded
    /\ \E i \in DOMAIN source :
        /\ ~source[i].is_edge_tick /\ ~source[i].is_sentinel_tick
        /\ source[i].balance_account # source[i].balance_source
        /\ source[i].balance_total # source[i].balance_inexternal
        /\ \E j \in DOMAIN source : source[j].is_external # source[i].is_external

\* The rows of df that are neither edge ticks nor sentinel ticks.
Unflagged(df) == SelectSeq(df, LAMBDA row : ~row.is_edge_tick /\ ~row.is_sentinel_tick)

\* Whether every row of df flagged as an edge tick or a sentinel tick has
\* the amount 0.
TicksAreZero(df) ==
    \A i \in DOMAIN df : df[i].is_edge_tick \/ df[i].is_sentinel_tick => df[i].amount = 0

\* Whether df holds no sentinel tick unless sentinels is passed and no edge
\* tick unless edge_ticks is passed.
TicksOnRequest(df, args) ==
    \A i \in DOMAIN df :
        /\ df[i].is_sentinel_tick => args.sentinels
        /\ df[i].is_edge_tick => args.edge_ticks

\* C22: every row flagged is_edge_tick or is_sentinel_tick has amount 0,
\* every row loaded from the ledger has both flags false (the unflagged rows
\* of the table are the transactions of the ledger, one row each), and
\* SourceData.get returns no sentinel tick unless sentinels=True is passed
\* and no edge tick unless edge_ticks=True is passed, for every combination
\* of the other arguments.
C22_TicksFlagged ==
    /\ JustLoaded =>
        /\ TicksAreZero(source)
        /\ \A k \in DOMAIN loaded : TicksAreZero(loaded[k])
        /\ Len(Unflagged(source)) = Len(source_data)
        /\ {RawRow(row) : row \in Range(Unflagged(source))} = Range(source_data)
    /\ JustLoaded /\ Len(loaded) = 1 =>
        \A args \in GetArguments :
            \A net_by_tag \in (IF args.incomes \/ args.expenses THEN BOOLEAN ELSE {FALSE}) :
                TicksOnRequest(SourceData_get(loaded[1], args, net_by_tag), args)
    /\ ~IsNull(got) => TicksOnRequest(Val(got).df, Val(got).args)

\* A call get(edge_ticks=True) on a table with sentinel ticks and edge
\* ticks: the edge ticks are returned, the sentinel ticks are not.
C22_Witness ==
    /\ ~IsNull(got)
    /\ Val(got).args = GetCall({"edge_ticks"})
    /\ \E i \in DOMAIN loaded[1] : loaded[1][i].is_sentinel_tick /\ ~loaded[1][i].is_external
    /\ \E i \in DOMAIN Val(got).df : Val(got).df[i].is_edge_tick
    /\ \E i \in DOMAIN Val(got).df : ~Val(got).df[i].is_edge_tick

\* The columns on which rows that the sort may exchange are alike: the
\* columns of the sort order and the columns computed from them alone.
TIE_COLUMNS ==
    {"date", "tag", "subtag", "amount", "description", "hash", "month", "tags", "is_edge_tick",
     "is_sentinel_tick", "is_breakdown", "is_external", "balance_total", "balance_inexternal"}

\* The four columns of cumulative balances.
BALANCE_COLUMNS == {"balance_total", "balance_inexternal", "balance_account", "balance_source"}

\* Whether no two rows of the sorted table df are equal on all the columns
\* of the sort order.
NoTies(df) == \A i \in DOMAIN df : i < Len(df) => RowLess(df[i], df[i + 1], SORT_ORDER)

\* The number of rows of df equal to row.
Copies(df, row) == Cardinality({i \in DOMAIN df : df[i] = row})

FlagsOfRow(row) ==
    /\ row.is_external = (Filters_predicate(external_filters, row) = "T")
    /\ row.is_breakdown = (Filters_predicate(Filters_inverted(breakdown_filters), row) = "T")

\* C25: in every row of the enriched table, real or synthetic, is_external
\* is true exactly when the row itself passes the external filters and
\* is_breakdown exactly when the row itself is not excluded by the breakdown
\* filters; the flag of a row does not depend on the tags of another row.
C25_FlagsByRow == \A k \in DOMAIN loaded : \A i \in DOMAIN loaded[k] : FlagsOfRow(loaded[k][i])

\* C28: a row skipped in the loop is not presented again in the session:
\* the row at a prompt is never a skipped one, and while the session runs
\* the skipped set only grows and each index of the joined view keeps
\* denoting the same transaction, also when an upsert joins the view again.
\* A skip leaves the Tag Store file and the in-memory table as they are, and
\* the fingerprint of a skipped row has an entry in the file only when an
\* entry was accepted in the session for another row with that fingerprint.
C28_SkipIsFinal ==
    /\ [](InLoop => Val(index) \notin skipped_indices)
    /\ [](HasTagger =>
            \A i \in skipped_indices :
                get_row(source, i).hash \in Hashes(FileTable) =>
                    \E k \in DOMAIN accepted :
                        /\ accepted[k].hash = get_row(source, i).hash
                        /\ accepted[k].index # i)
    /\ [][/\ HasTagger /\ HasTagger' =>
                /\ skipped_indices \subseteq skipped_indices'
                /\ Len(source') = Len(source)
                /\ \A i \in DOMAIN source : RawRow(source'[i]) = RawRow(source[i])
          /\ HasTagger /\ HasTagger' /\ skipped_indices' # skipped_indices =>
                UNCHANGED <<tags_file, tags>>]_vars

\* C28 witness: a row was skipped, then an entry was accepted for a later
\* row with the fingerprint of the skipped one, and the loop has gone on to
\* a further prompt.
C28_Witness ==
    /\ pc = "prompt"
    /\ \E i \in skipped_indices :
        /\ get_row(source, i).hash \in Hashes(FileTable)
        /\ \E k \in DOMAIN accepted : accepted[k].hash = get_row(source, i).hash /\ accepted[k].index > i
        /\ Val(index) > i

\* Whether "No tags missing." is printed for the value tag_interactively
\* returned: `if not performed_tagging`.
NoTagsMissingPrinted == result \in {"False", "None"}

\* C30: "No tags missing." is printed only when the session started with no
\* untagged transaction: once a row was presented the value returned is
\* truthy, whether the loop ended by quit or by running out of untagged
\* rows.
C30_TruthyAfterPrompt == pc = "done" => (NoTagsMissingPrinted <=> untagged_at_start = 0)

(***************************************************************************)
(* tag_interactively() under preset rules: one session of the loop over a  *)
(* short ledger, with a Tag Store written by earlier sessions.              *)
(***************************************************************************)
MaxPresetLoopRows == 2

\* The lists of preset rules of the sessions: a rule by description, a rule
\* by account, a rule whose only filter is on tags (without effect once the
\* tags are cleared), and a rule by start date followed by one by account.
PresetLoopRules ==
    { <<TagPresetRule(<<"k">>, <<"a">>, [NO_FILTERS EXCEPT !.description = Some(<<"Y">>)])>>,
      <<TagPresetRule(<<"l">>, <<"b">>, [NO_FILTERS EXCEPT !.account = Some(<<"a", "b">>)])>>,
      <<TagPresetRule(<<"o">>, <<"e">>, [NO_FILTERS EXCEPT !.tags = Some({<<"F">>})])>>,
      <<TagPresetRule(<<"n">>, <<"c">>, [NO_FILTERS EXCEPT !.start_date = Some(20240301)]),
        TagPresetRule(<<"l">>, <<"b">>, [NO_FILTERS EXCEPT !.account = Some(<<"a", "b">>)])>> }

PresetLoopInit ==
    /\ source_data \in {l \in Ledgers : Len(l) <= MaxPresetLoopRows}
    /\ default_tags = None
    /\ tags_file \in PresetStores(source_data)
    /\ source = <<>>
    /\ tags = <<>>
    /\ skipped_indices = {}
    /\ index = None
    /\ guess = None
    /\ tag_input = None
    /\ pc = "idle"
    /\ result = ""
    /\ accepted = <<>>
    /\ answered = 0
    /\ untagged_at_start = 0
    /\ preset_rules \in PresetLoopRules
    /\ delete_filters = NO_FILTERS
    /\ delete_unused = FALSE
    /\ bak = [exists |-> FALSE, files |-> <<>>]
    /\ pending = None
    /\ prompts = <<>>
    /\ analysis_filters = NO_FILTERS
    /\ allow_untagged = FALSE
    /\ reported = None
    /\ df_schema = <<>>
    /\ expected_schema = <<>>
    /\ errors = None
    /\ edge_ticks = NO_EDGE_TICKS
    /\ external_filters = [NO_FILTERS EXCEPT !.invert = TRUE]
    /\ breakdown_filters = NO_FILTERS
    /\ anonymization = AnalysisAnonymization(FALSE)
    /\ loaded = <<>>
    /\ got = None

PresetLoopNext ==
    \/ Start
    \/ KeyQuit
    \/ KeyShowTags
    \/ KeySkip
    \/ KeyInput
    \/ InputTagCancel
    \/ InputTag
    \/ InputSubtagCancel
    \/ InputSubtag
    \/ KeyGuess
    \/ KeyOther

PresetLoopSpec == PresetLoopInit /\ [][PresetLoopNext]_vars

\* Whether the filters of an effective preset rule, their tags and subtags
\* left aside, match the transaction.
MatchedByPreset(row) ==
    \E k \in DOMAIN preset_rules :
        LET filters == WithoutTagFilters(preset_rules[k].filters)
        IN  Filters_has_effect(filters) /\ Filters_predicate(filters, row) = "T"

\* C29: a transaction matched by the filters of an effective preset rule
\* (the tags and subtags of the rule left aside) is not in the joined view
\* of the session, so it is never the row presented and never a row
\* guess_tags looks at: the guess shown is one guess_tags gives on that
\* view.  No step of the session creates, changes or removes a Tag Store
\* entry for the fingerprint of such a transaction.
C29_PresetRowsLeftAlone ==
    /\ [](HasTagger => \A i \in DOMAIN source : ~MatchedByPreset(source[i]))
    /\ [](pc = "prompt" =>
            /\ ~MatchedByPreset(get_row(source, Val(index)))
            /\ Val(guess) \in Guesses(source, Val(index), default_tags))
    /\ [][\A i \in DOMAIN source_data :
            MatchedByPreset(source_data[i]) =>
                EntriesOf(read_tags_file(tags_file'), RowHash[source_data[i]])
                    = EntriesOf(read_tags_file(tags_file), RowHash[source_data[i]])]_vars

\* C29 witness: the ledger holds a transaction a preset rule matches, with
\* an entry in the Tag Store, and one it does not match; the session has
\* stored an entry for the latter and shows a further prompt or has ended.
C29_Witness ==
    /\ HasTagger
    /\ Len(accepted) >= 1
    /\ Len(source) < Len(source_data)
    /\ \E i \in DOMAIN source_data :
        /\ MatchedByPreset(source_data[i])
        /\ EntriesOf(FileTable, RowHash[source_data[i]]) # {}

(***************************************************************************)
(* The tag command run again and again: in each run the deletions the      *)
(* configuration asks for, each behind its prompt, then the interactive    *)
(* loop.  The directory bak exists, so that a confirmed deletion writes.   *)
(***************************************************************************)
MaxBackups == 1

\* The ledgers of the runs: two transactions that differ in account and
\* source only, and two transactions of different dates and descriptions.
RunLedgers ==
    {l \in Ledgers :
        l \in { << Row(<<"a", "b">>, <<"c">>, 20240105, -10, <<"X">>),
                   Row(<<"a">>, <<"b", "c">>, 20240105, -10, <<"X">>) >>,
                << Row(<<"a">>, <<"b", "c">>, 20240207, -10, <<"X">>),
                   Row(<<"a">>, <<"b", "c">>, 20240301, 5, <<"Y">>) >> }}

\* config().tag.delete_filters of the runs: unset, by tag, by description.
RunFilterChoices ==
    { NO_FILTERS,
      [NO_FILTERS EXCEPT !.tags = Some({<<"F">>})],
      [NO_FILTERS EXCEPT !.description = Some(<<"X">>)] }

RunInit ==
    /\ source_data \in RunLedgers
    /\ default_tags = None
    /\ tags_file \in {[exists |-> FALSE, lines |-> <<>>], StoreOfRows(source_data \o FormerRows)}
    /\ source = <<>>
    /\ tags = <<>>
    /\ skipped_indices = {}
    /\ index = None
    /\ guess = None
    /\ tag_input = None
    /\ pc = "run"
    /\ result = ""
    /\ accepted = <<>>
    /\ answered = 0
    /\ untagged_at_start = 0
    /\ preset_rules = <<>>
    /\ delete_filters \in RunFilterChoices
    /\ delete_unused \in BOOLEAN
    /\ bak = [exists |-> TRUE, files |-> <<>>]
    /\ pending = None
    /\ prompts = <<>>
    /\ analysis_filters = NO_FILTERS
    /\ allow_untagged = FALSE
    /\ reported = None
    /\ df_schema = <<>>
    /\ expected_schema = <<>>
    /\ errors = None
    /\ edge_ticks = NO_EDGE_TICKS
    /\ external_filters = [NO_FILTERS EXCEPT !.invert = TRUE]
    /\ breakdown_filters = NO_FILTERS
    /\ anonymization = AnalysisAnonymization(FALSE)
    /\ loaded = <<>>
    /\ got = None

\* The process ends after tag_interactively returned and the command is run
\* again on the Tag Store file and the directory bak it left.
RunAgain ==
    /\ pc = "done"
    /\ Len(bak.files) < MaxBackups
    /\ pc' = "run"
    /\ source' = <<>>
    /\ tags' = <<>>
    /\ skipped_indices' = {}
    /\ result' = ""
    /\ accepted' = <<>>
    /\ answered' = 0
    /\ untagged_at_start' = 0
    /\ prompts' = <<>>
    /\ UNCHANGED <<config, enrichment, schema_call, analysis, bak, pending, tags_file, index, guess, tag_input>>

RunNext ==
    \/ RunDeletions
    \/ DeclineDeletion
    \/ ConfirmDeletion
    \/ Start
    \/ KeyQuit
    \/ KeySkip
    \/ KeyInput
    \/ InputTag
    \/ InputSubtag
    \/ KeyGuess
    \/ RunAgain

RunSpec == RunInit /\ [][RunNext]_vars

\* Whether the rows of a tags table are in the order of
\* sort("tag", "subtag", "hash").
SortedStore(table) == \A i \in DOMAIN table : i < Len(table) => ~TagRowLess(table[i + 1], table[i])

\* Tables write_tags_file can be handed that are not of the TAG_SCHEMA
\* columns: the joined view, and the in-memory table without its subtag
\* column or with a column more.
OtherTables ==
    {source,
     [i \in DOMAIN FileTable |-> [tag |-> FileTable[i].tag, hash |-> FileTable[i].hash]],
     [i \in DOMAIN FileTable |-> [tag |-> FileTable[i].tag, subtag |-> FileTable[i].subtag,
                                  hash |-> FileTable[i].hash, date |-> 20240105]]} \ {<<>>}

\* The schemas over the columns tag, subtag and hash that differ from
\* TAG_SCHEMA in a dtype.
OtherDtypes ==
    {s \in [Range(TAG_SCHEMA) -> SchemaDtypes] : \E c \in Range(TAG_SCHEMA) : s[c] # Dtype[c]}

\* C24: after any sequence of interactive upserts and confirmed deletions
\* the Tag Store file holds lines of the three fields tag, subtag and hash
\* in the order of (tag, subtag, hash).  write_tags_file leaves the file as
\* it is when the table has another set of columns, and validate_schema,
\* which it calls before it writes, finds an error in every schema over the
\* three columns with another dtype.
C24_StoreSortedAndShaped ==
    /\ tags_file.exists =>
        /\ \A i \in DOMAIN tags_file.lines : Len(tags_file.lines[i]) = Len(TAG_SCHEMA)
        /\ \A i \in DOMAIN FileTable : DOMAIN FileTable[i] = Range(TAG_SCHEMA)
        /\ SortedStore(FileTable)
    /\ \A data \in OtherTables :
        /\ ~validate_schema(data, Range(TAG_SCHEMA))
        /\ write_tags_file(data, tags_file) = tags_file
    /\ \A s \in OtherDtypes : schema_errors(s, SchemaItems(TAG_SCHEMA)) # <<>>

\* C24 witness: a deletion was confirmed on a file that held an entry
\* stored in the loop of an earlier run (its tag is none of the tags of the
\* first store), and an entry was then accepted in the loop; the file holds
\* entries of two different tags.
C24_Witness ==
    /\ HasTagger
    /\ Len(bak.files) >= 1
    /\ \E i \in DOMAIN bak.files[1] :
        ParseLine(bak.files[1][i]).tag \notin {Some(<<"F">>), Some(<<"D">>)}
    /\ \E k \in DOMAIN prompts : IsYes(prompts[k].answer) /\ ~prompts[k].raised
    /\ Len(accepted) >= 1
    /\ \E i, j \in DOMAIN FileTable : FileTable[i].tag # FileTable[j].tag

====
